---- MODULE Spec2Model ----
(***************************************************************************)
(* Model of the content intelligence pipeline: ContentRanker,              *)
(* IdeaGenerator and ContentPipeline (orchestrator), with the two          *)
(* orchestrated entry points generate_content_and_notify and               *)
(* run_weekly_summary that persist the snapshot and notify; of the two     *)
(* collectors (RSSCollector, ResearchCollector), of the notifier           *)
(* (TelegramBot) and of the web app's load_feed_data.  Each component has  *)
(* its own specification over the one set of variables; the variables of   *)
(* the components a specification does not use stay at their idle values.  *)
(*                                                                         *)
(* Python dictionaries are functions whose DOMAIN is the set of keys that  *)
(* are present.  The remote services (embedding, chat completion) are the  *)
(* environment: every request draws its outcome from a small set.          *)
(***************************************************************************)
EXTENDS Integers, Sequences, FiniteSets, TLC

\* ---------------------------------------------------------------- bounds
MaxItems == 2        \* most items one Collect stage returns (all sources)
MaxTopN == 2         \* largest explicit top_n passed to run_complete_pipeline
MaxRuns == 2         \* runs started in one behaviour

\* ------------------------------------------------------ program constants
DefaultTopN == 10    \* run_complete_pipeline(top_n: int = 10)
ScoreScale == 50     \* a relevance_score s is held as the integer 50 * s
FallbackScore == 25  \* 0.5, the score written when there is no client
ZeroScore == 0       \* 0.0, _cosine_similarity of an empty embedding

\* ------------------------------------------------------- generic helpers
Min(a, b) == IF a < b THEN a ELSE b
Max(a, b) == IF a > b THEN a ELSE b

SeqsUpTo(S, n) == UNION {[1..k -> S] : k \in 0..n}

\* dict.get(key, default)
Get(d, k, default) == IF k \in DOMAIN d THEN d[k] ELSE default

\* d[k] = v, and d.update({k: v}) for one key
Put(d, k, v) == [x \in (DOMAIN d) \cup {k} |-> IF x = k THEN v ELSE d[x]]

\* seq[:n] of Python: a negative n counts from the end
SliceMutOffByOne(seq, n) ==
    IF n >= 0 THEN SubSeq(seq, 1, Min(n + 1, Len(seq)))
    ELSE SubSeq(seq, 1, Max(Len(seq) + n, 0))

Slice(seq, n) ==
    IF n >= 0 THEN SubSeq(seq, 1, Min(n, Len(seq)))
    ELSE SubSeq(seq, 1, Max(Len(seq) + n, 0))

\* ------------------------------------------------------------ collectors
\* Records the collectors hand to the orchestrator.  The same paper is
\* offered by both kinds of source (no deduplication is performed).  The
\* feed collector only hands on entries that pass its keyword test; the
\* research collector does not filter.
PaperML == [title |-> "AI breakthrough in machine learning",
            summary |-> "new neural network architecture",
            url |-> "https://example.com/1",
            source |-> "arXiv",
            published_date |-> "2024-01-01",
            authors |-> <<"A. Author">>,
            category |-> "Research Paper"]

PaperPasta == [title |-> "cooking recipe tips",
               summary |-> "how to make the perfect pasta sauce",
               url |-> "https://example.com/2",
               source |-> "Semantic Scholar",
               published_date |-> "2024-01-02",
               authors |-> <<"B. Author">>,
               category |-> "Research Paper",
               venue |-> "",
               citation_count |-> 0,
               year |-> 2024]

PostML == [title |-> "AI breakthrough in machine learning",
           summary |-> "new neural network architecture",
           url |-> "https://example.com/1",
           source |-> "MIT Technology Review AI",
           category |-> "News",
           published_date |-> "2024-01-03",
           collector |-> "rss",
           keywords |-> <<"machine learning", "neural network", "AI">>]

ResearchItems == {PaperML, PaperPasta}
RssItems == {PostML}

\* what gather_all_data can return: a list per source, a failed source
\* contributing the empty list
RawDataSets ==
    {[research |-> r, rss |-> s] :
        r \in SeqsUpTo(ResearchItems, MaxItems),
        s \in SeqsUpTo(RssItems, MaxItems)}

GatherAllData == {d \in RawDataSets : Len(d.research) + Len(d.rss) <= MaxItems}

\* ------------------------------------------------------------- structure
StructuredItem(item, source_type) ==
    [title |-> Get(item, "title", ""),
     summary |-> Get(item, "summary", ""),
     source |-> Get(item, "source", ""),
     url |-> Get(item, "url", ""),
     published_date |-> Get(item, "published_date", ""),
     category |-> Get(item, "category", ""),
     keywords |-> Get(item, "keywords", <<>>),
     source_type |-> source_type,
     original_data |-> item]

StructureSource(items, source_type) ==
    [i \in 1..Len(items) |-> StructuredItem(items[i], source_type)]

\* an item whose url a research item already has is left out
CleanAndStructureDataMutDedup(raw) ==
    StructureSource(raw.research, "research") \o
    StructureSource(
        SelectSeq(raw.rss,
                  LAMBDA item : \A i \in 1..Len(raw.research) :
                                   raw.research[i].url # item.url),
        "rss")

\* the dict is iterated in insertion order: "research", then "rss"
CleanAndStructureData(raw) ==
    StructureSource(raw.research, "research") \o StructureSource(raw.rss, "rss")

\* ---------------------------------------------------------------- ranker
\* Outcomes of one embeddings.create request, as _get_embedding returns
\* them: <<>> when the request raised (the exception is caught there), or the
\* vector of the response.  The service normally answers with vectors of one
\* dimension; VecShort is an answer of another dimension, on which np.dot
\* raises ValueError inside _cosine_similarity.
NoEmbedding == <<>>
VecRef == <<3, 4>>
VecNear == <<4, 3>>
VecShort == <<5>>

RefEmbeddings == {NoEmbedding, VecRef}
ItemEmbeddings == {NoEmbedding, VecRef, VecNear, VecShort}

\* ... and an embedding that points away from the reference
SignedEmbeddings == ItemEmbeddings \cup {<<-3, -4>>}

\* what the embedding requests of one scoring pass returned: the reference
\* text's, then each article's.  Without a client the pass makes none
\* (line 32), and nothing is held where no log is kept.
Embedded(ref, embs) == [ref |-> ref, items |-> embs]
NoRequests == Embedded(<<>>, <<>>)

RECURSIVE Dot(_, _)
Dot(a, b) == IF a = <<>> THEN 0 ELSE Head(a) * Head(b) + Dot(Tail(a), Tail(b))

\* np.linalg.norm, exact on the vectors above
Norm(a) == CHOOSE n \in 0..Dot(a, a) : n * n = Dot(a, a)

\* np.dot raises when the two shapes differ
CosineRaises(a, b) == a # <<>> /\ b # <<>> /\ Len(a) # Len(b)

CosineSimilarity(a, b) ==
    IF a = <<>> \/ b = <<>> THEN ZeroScore
    ELSE (ScoreScale * Dot(a, b)) \div (Norm(a) * Norm(b))

\* an embedding request that failed aborts the pass as well
FirstRaiseMutOnFailure(ref, embs) ==
    LET bad == {i \in 1..Len(embs) :
                   embs[i] = NoEmbedding \/ CosineRaises(ref, embs[i])}
    IN IF bad = {} THEN 0 ELSE CHOOSE i \in bad : \A j \in bad : i <= j

\* index of the first article whose similarity raises, 0 when none does
FirstRaise(ref, embs) ==
    LET bad == {i \in 1..Len(embs) : CosineRaises(ref, embs[i])}
    IN IF bad = {} THEN 0 ELSE CHOOSE i \in bad : \A j \in bad : i <= j

\* sorted(..., key=relevance_score, reverse=True) as a sequence of input
\* positions: stable, so equal scores keep their input order
RECURSIVE InsertDesc(_, _, _)
InsertDesc(perm, i, score) ==
    IF perm = <<>> THEN <<i>>
    ELSE IF score[Head(perm)] >= score[i]
         THEN <<Head(perm)>> \o InsertDesc(Tail(perm), i, score)
         ELSE <<i>> \o perm

RECURSIVE SortedDescFrom(_, _, _)
SortedDescFrom(perm, i, score) ==
    IF i > Len(score) THEN perm
    ELSE SortedDescFrom(InsertDesc(perm, i, score), i + 1, score)

\* a descending sort that is not stable: of two equal scores the later
\* input position comes first
SortedDescMutTiesReversed(score) ==
    LET n == Len(score)
    IN CHOOSE perm \in [1..n -> 1..n] :
          \A k, l \in 1..n :
             k < l => \/ score[perm[k]] > score[perm[l]]
                      \/ /\ score[perm[k]] = score[perm[l]]
                         /\ perm[k] > perm[l]

\* the sort left out: input order
SortedDescMutUnsorted(score) == [i \in 1..Len(score) |-> i]

SortedDesc(score) == SortedDescFrom(<<>>, 1, score)

PositionIn(perm, i) == CHOOSE k \in 1..Len(perm) : perm[k] = i

\* the fallback score written as 0.0
ScoreWithoutClientMutZero(articles) ==
    [i \in 1..Len(articles) |->
        Put(Put(articles[i], "relevance_score", ZeroScore), "rank", i)]

\* lines 32-37: no client
ScoreWithoutClient(articles) ==
    [i \in 1..Len(articles) |->
        Put(Put(articles[i], "relevance_score", FallbackScore), "rank", i)]

\* lines 39-61.  The result has the list that is returned and the state of
\* the caller's list afterwards: both hold the same dictionaries, which the
\* pass writes in place.  When the similarity of article `stop` raises, the
\* articles before it already carry their relevance_score.
ScorePassAborted(articles, ref, embs, stop) ==
    [i \in 1..Len(articles) |->
        IF i < stop
        THEN Put(articles[i], "relevance_score",
                 CosineSimilarity(ref, embs[i]))
        ELSE articles[i]]

ScorePassRanked(articles, ref, embs) ==
    LET n == Len(articles)
        score == [i \in 1..n |-> CosineSimilarity(ref, embs[i])]
        perm == SortedDesc(score)
    IN [k \in 1..n |->
           Put(Put(articles[perm[k]], "relevance_score", score[perm[k]]),
               "rank", k)]

\* the caller's list after a completed pass: input order, every dictionary
\* with the score and the rank the pass wrote on it
ScorePassInPlace(articles, ref, embs) ==
    LET n == Len(articles)
        score == [i \in 1..n |-> CosineSimilarity(ref, embs[i])]
        perm == SortedDesc(score)
    IN [i \in 1..n |->
           Put(Put(articles[i], "relevance_score", score[i]),
               "rank", PositionIn(perm, i))]

ScoreWithClient(articles, ref, embs) ==
    LET stop == FirstRaise(ref, embs)
    IN IF stop # 0
       THEN [raised |-> TRUE,
             returned |-> ScorePassAborted(articles, ref, embs, stop),
             articles |-> ScorePassAborted(articles, ref, embs, stop)]
       ELSE [raised |-> FALSE,
             returned |-> ScorePassRanked(articles, ref, embs),
             articles |-> ScorePassInPlace(articles, ref, embs)]

ScoreContentRelevance(client, articles, ref, embs) ==
    IF ~client
    THEN [raised |-> FALSE, returned |-> ScoreWithoutClient(articles),
          articles |-> ScoreWithoutClient(articles)]
    ELSE ScoreWithClient(articles, ref, embs)

GetTopContent(client, articles, top_x, ref, embs) ==
    LET r == ScoreContentRelevance(client, articles, ref, embs)
    IN [raised |-> r.raised, scored |-> r.returned, articles |-> r.articles,
        top |-> Slice(r.returned, top_x)]

\* the whole ranked list handed on, the truncation left out
RankContentByRelevanceMutNoTruncate(client, articles, top_n, ref, embs) ==
    LET r == ScoreContentRelevance(client, articles, ref, embs)
    IN [raised |-> r.raised, scored |-> r.returned, articles |-> r.articles,
        top |-> r.returned]

\* get_top_content raises nothing, so the fallback of line 89 is not taken
RankContentByRelevance(client, articles, top_n, ref, embs) ==
    GetTopContent(client, articles, top_n, ref, embs)

\* -------------------------------------------------------- idea generator
\* The text of a chat completion is a sequence of tokens: the two markers,
\* the line break, and words that stand for the text between them.
Tok(t, n) == [t |-> t, n |-> n]     \* the text t, n characters long

MarkPost == Tok("POST IDEA:", 10)
MarkArticle == Tok("ARTICLE IDEA:", 13)
NL == Tok("\n", 1)
LongText == Tok("long text", 200)

TruncateAt == 150    \* content[:150]

ErrorPostIdea == <<Tok("Error generating post idea", 26)>>
ErrorArticleIdea == <<Tok("Error generating article idea", 29)>>
GeneratedPostIdea == <<Tok("Generated post idea", 19)>>
GeneratedArticleIdea == <<Tok("Generated article idea", 22)>>
RelatedArticle == <<Tok("Related article opportunity", 27)>>
Ellipsis == Tok("...", 3)

RECURSIVE CharLen(_)
CharLen(text) ==
    IF text = <<>> THEN 0 ELSE Head(text).n + CharLen(Tail(text))

\* str.strip(): line breaks are the only white space among the tokens
RECURSIVE StripLeft(_)
StripLeft(text) ==
    IF text # <<>> /\ Head(text) = NL THEN StripLeft(Tail(text)) ELSE text

RECURSIVE StripRight(_)
StripRight(text) ==
    IF text # <<>> /\ text[Len(text)] = NL
    THEN StripRight(SubSeq(text, 1, Len(text) - 1))
    ELSE text

Strip(text) == StripRight(StripLeft(text))

\* str.replace(marker, '')
Remove(text, marker) == SelectSeq(text, LAMBDA t : t # marker)

\* str.split(sep): the pieces between the occurrences of sep
RECURSIVE SplitFrom(_, _, _, _)
SplitFrom(text, sep, done, cur) ==
    IF text = <<>> THEN Append(done, cur)
    ELSE IF Head(text) = sep
         THEN SplitFrom(Tail(text), sep, Append(done, cur), <<>>)
         ELSE SplitFrom(Tail(text), sep, done, Append(cur, Head(text)))

Split(text, sep) == SplitFrom(text, sep, <<>>, <<>>)

StartsWith(line, marker) == line # <<>> /\ Head(line) = marker

\* lines 96-100: the last line with each prefix wins
RECURSIVE ParseLines(_, _, _)
ParseLines(lines, post, article) ==
    IF lines = <<>> THEN [post |-> post, article |-> article]
    ELSE IF StartsWith(Head(lines), MarkPost)
         THEN ParseLines(Tail(lines),
                         Strip(Remove(Head(lines), MarkPost)), article)
    ELSE IF StartsWith(Head(lines), MarkArticle)
         THEN ParseLines(Tail(lines), post,
                         Strip(Remove(Head(lines), MarkArticle)))
    ELSE ParseLines(Tail(lines), post, article)

\* text[:k]: the cut may fall inside a token
RECURSIVE Take(_, _)
Take(text, k) ==
    IF text = <<>> \/ k = 0 THEN <<>>
    ELSE IF Head(text).n <= k
         THEN <<Head(text)>> \o Take(Tail(text), k - Head(text).n)
         ELSE <<Tok(Head(text).t, k)>>

\* content[:150] + "..." if len(content) > 150 else content
Truncated(content) ==
    IF CharLen(content) > TruncateAt
    THEN Append(Take(content, TruncateAt), Ellipsis)
    ELSE content

\* the split on the article marker left out
ParseIdeasMutNoSplit(response) ==
    LET content == Strip(response)
        byLine == ParseLines(Split(content, NL), <<>>, <<>>)
    IN IF byLine.post # <<>> /\ byLine.article # <<>> THEN byLine
       ELSE [post |-> Truncated(content), article |-> RelatedArticle]

\* lines 89-114
ParseIdeas(response) ==
    LET content == Strip(response)
        byLine == ParseLines(Split(content, NL), <<>>, <<>>)
        parts == Split(content, MarkArticle)
        post_part == Strip(Remove(parts[1], MarkPost))
        article_part == Strip(parts[2])
    IN IF byLine.post # <<>> /\ byLine.article # <<>> THEN byLine
       ELSE IF Len(parts) = 2
       THEN [post |-> IF post_part # <<>> THEN post_part
                      ELSE GeneratedPostIdea,
             article |-> IF article_part # <<>> THEN article_part
                         ELSE GeneratedArticleIdea]
       ELSE [post |-> Truncated(content), article |-> RelatedArticle]

\* Outcomes of one chat.completions.create request: RequestFailed when it
\* raises, or the text of the answer.
RequestFailed == [ok |-> FALSE]
Answer(content) == [ok |-> TRUE, content |-> content]
RespTwoLines ==
    Answer(<<MarkPost, Tok("post", 4), NL, MarkArticle, Tok("article", 7)>>)
RespOneLine ==
    Answer(<<MarkPost, Tok("post", 4), MarkArticle, Tok("article", 7)>>)
RespLong == Answer(<<LongText>>)

Responses == {RequestFailed, RespTwoLines, RespOneLine, RespLong}

\* ... and every answer of up to MaxTokens tokens
MaxTokens == 5
TokenResponses ==
    Responses \cup
    {Answer(content) :
        content \in SeqsUpTo({MarkPost, MarkArticle, NL, LongText,
                              Tok("post", 4), Tok("article", 7)}, MaxTokens)}

\* lines 79-118
GenerateIdeasForArticle(outcome) ==
    IF ~outcome.ok
    THEN [post |-> ErrorPostIdea, article |-> ErrorArticleIdea]
    ELSE ParseIdeas(outcome.content)

\* a new dictionary with the ideas only, article.copy() left out
EnhancedMutNoCopy(article, ideas) ==
    [post_idea |-> ideas.post, article_idea |-> ideas.article]

\* lines 41-47: article.copy() and update()
Enhanced(article, ideas) ==
    Put(Put(article, "post_idea", ideas.post), "article_idea", ideas.article)

\* the loop left at the first request that fails
CreateContentIdeasMutAbort(client, articles, outcomes) ==
    LET failed == {i \in 1..Len(articles) : ~outcomes[i].ok}
        last == IF failed = {} THEN Len(articles)
                ELSE CHOOSE i \in failed : \A j \in failed : i <= j
    IN IF ~client THEN articles
       ELSE [i \in 1..last |->
                Put(Put(articles[i], "post_idea",
                        GenerateIdeasForArticle(outcomes[i]).post),
                    "article_idea",
                    GenerateIdeasForArticle(outcomes[i]).article)]

\* lines 22-59.  No exception reaches line 49: _generate_ideas_for_article
\* catches its own.
CreateContentIdeas(client, articles, outcomes) ==
    IF ~client THEN articles
    ELSE [i \in 1..Len(articles) |->
             Enhanced(articles[i], GenerateIdeasForArticle(outcomes[i]))]

\* the ideas written on the dictionaries of the input list themselves
ArticlesAfterIdeasMutInPlace(client, articles, outcomes) ==
    IF ~client THEN articles
    ELSE [i \in 1..Len(articles) |->
             Enhanced(articles[i], GenerateIdeasForArticle(outcomes[i]))]

\* lines 41-45 and 52-56: the input list after the call.  The ideas go to
\* article.copy(), the dictionaries of the list are not written.
ArticlesAfterIdeas(client, articles, outcomes) == articles

\* number of chat completion requests create_content_ideas issues
IdeaRequests(client, articles) == IF client THEN Len(articles) ELSE 0

\* create_content_ideas raises nothing, so the fallback of lines 101-107 is
\* not taken
GenerateCreativeIdeas(client, ranked_articles, outcomes) ==
    CreateContentIdeas(client, ranked_articles, outcomes)

\* ----------------------------------------------------------- orchestrator
NoResult == [none |-> TRUE]
NoFile == [exists |-> FALSE]

\* datetime.now().isoformat() of the clock reading t
IsoFormat(t) == [iso |-> t]

\* top_ranked counts the whole structured list
PipelineResultsMutCountsAll(t, raw, structured, ranked, ideas) ==
    [timestamp |-> IsoFormat(t),
     total_collected |-> Len(structured),
     top_ranked |-> Len(structured),
     ideas_generated |-> Len(ideas),
     ranked_articles |-> ranked,
     content_ideas |-> ideas,
     sources_used |-> <<"research", "rss">>]

\* lines 127-135: the summary object
PipelineResults(t, raw, structured, ranked, ideas) ==
    [timestamp |-> IsoFormat(t),
     total_collected |-> Len(structured),
     top_ranked |-> Len(ranked),
     ideas_generated |-> Len(ideas),
     ranked_articles |-> ranked,
     content_ideas |-> ideas,
     sources_used |-> <<"research", "rss">>]

\* lines 142-146: the result of the except branch
FailedResults(t, e) ==
    [timestamp |-> IsoFormat(t), error |-> e, status |-> "failed"]

\* json.dump / json.load of the feed: every member of an object becomes a
\* JSON value and is read back from it
JsonObject(d) == [k \in DOMAIN d |-> [json |-> d[k]]]
\* the members that hold a nested object are lost on reading
JsonDictMutDropsNested(o) ==
    [k \in DOMAIN o \ {"original_data"} |-> o[k].json]

JsonDict(o) == [k \in DOMAIN o |-> o[k].json]

JsonDump(feed) ==
    [last_updated |-> [json |-> feed.last_updated],
     content_ideas |->
        [i \in 1..Len(feed.content_ideas) |-> JsonObject(feed.content_ideas[i])]]

JsonLoad(text) ==
    [last_updated |-> text.last_updated.json,
     content_ideas |->
        [i \in 1..Len(text.content_ideas) |-> JsonDict(text.content_ideas[i])]]

\* lines 162-165
FeedData(t, res) ==
    [last_updated |-> IsoFormat(t),
     content_ideas |-> Get(res, "content_ideas", <<>>)]

\* a feed with no items leaves the file as it is
WriteSnapshotMutKeepsOld(old, feed) ==
    IF old.exists /\ feed.content_ideas = <<>> THEN old
    ELSE [exists |-> TRUE, text |-> JsonDump(feed)]

\* the new items added to the ones the file holds
WriteSnapshotMutMerge(old, feed) ==
    [exists |-> TRUE,
     text |-> [last_updated |-> [json |-> feed.last_updated],
               content_ideas |->
                  (IF old.exists THEN old.text.content_ideas ELSE <<>>) \o
                  JsonDump(feed).content_ideas]]

\* open(data_file, 'w') and json.dump: the file holds the new feed only
WriteSnapshot(old, feed) == [exists |-> TRUE, text |-> JsonDump(feed)]

Stages == <<"collect", "structure", "rank", "enrich", "persist", "notify">>

\* ------------------------------------------------------------- collectors
\* Inside the collectors a text is its sequence of characters: clean_html,
\* strip, lower and the keyword test all work on characters.  (The pipeline
\* never looks inside a text and holds it as a string.)
lower_case ==
    [A |-> "a", B |-> "b", C |-> "c", D |-> "d", E |-> "e", F |-> "f",
     G |-> "g", H |-> "h", I |-> "i", J |-> "j", K |-> "k", L |-> "l",
     M |-> "m", N |-> "n", O |-> "o", P |-> "p", Q |-> "q", R |-> "r",
     S |-> "s", T |-> "t", U |-> "u", V |-> "v", W |-> "w", X |-> "x",
     Y |-> "y", Z |-> "z"]

\* str.lower()
Lower(text) ==
    [i \in 1..Len(text) |->
        IF text[i] \in DOMAIN lower_case THEN lower_case[text[i]]
        ELSE text[i]]

\* `term in text`
Contains(text, term) ==
    \E i \in 0..(Len(text) - Len(term)) :
       SubSeq(text, i + 1, i + Len(term)) = term

\* the characters that strip() and \s take for white space
WhiteSpace == {" ", "\n", "\t"}

\* the least and the greatest member of a non-empty set of positions
First(S) == CHOOSE i \in S : \A j \in S : i <= j
Last(S) == CHOOSE i \in S : \A j \in S : i >= j

\* str.strip()
StripText(text) ==
    LET inked == {i \in 1..Len(text) : text[i] \notin WhiteSpace}
    IN IF inked = {} THEN <<>> ELSE SubSeq(text, First(inked), Last(inked))

\* re.sub('<.*?>', '', text): the leftmost '<' that has a '>' after it on
\* the same line starts a tag, which ends at the nearest such '>'
RECURSIVE RemoveTags(_)
RemoveTags(text) ==
    LET TagEnds(p) ==
           {j \in (p + 1)..Len(text) :
               /\ text[j] = ">"
               /\ \A k \in (p + 1)..(j - 1) : text[k] # "\n"}
        starts == {p \in 1..Len(text) : text[p] = "<" /\ TagEnds(p) # {}}
    IN IF starts = {} THEN text
       ELSE SubSeq(text, 1, First(starts) - 1) \o
            RemoveTags(SubSeq(text, First(TagEnds(First(starts))) + 1,
                              Len(text)))

\* re.sub(r'\s+', ' ', text): every run of white space becomes one space
RECURSIVE CollapseSpace(_)
CollapseSpace(text) ==
    LET spaces == {i \in 1..Len(text) : text[i] \in WhiteSpace}
    IN IF spaces = {} THEN text
       ELSE LET rest == {i \in First(spaces)..Len(text) :
                            text[i] \notin WhiteSpace}
            IN SubSeq(text, 1, First(spaces) - 1) \o <<" ">> \o
               (IF rest = {} THEN <<>>
                ELSE CollapseSpace(SubSeq(text, First(rest), Len(text))))

\* lines 113-124
CleanHtml(text) ==
    IF text = <<>> THEN <<>> ELSE StripText(CollapseSpace(RemoveTags(text)))

\* lines 152-157 of the feed collector: the terms of the keyword test
ai_terms ==
    <<<<"a", "i">>,
      <<"a", "r", "t", "i", "f", "i", "c", "i", "a", "l", " ", "i", "n", "t", "e", "l", "l", "i", "g", "e", "n", "c", "e">>,
      <<"m", "a", "c", "h", "i", "n", "e", " ", "l", "e", "a", "r", "n", "i", "n", "g">>,
      <<"m", "l">>,
      <<"d", "e", "e", "p", " ", "l", "e", "a", "r", "n", "i", "n", "g">>,
      <<"n", "e", "u", "r", "a", "l", " ", "n", "e", "t", "w", "o", "r", "k">>,
      <<"a", "l", "g", "o", "r", "i", "t", "h", "m">>,
      <<"a", "u", "t", "o", "m", "a", "t", "i", "o", "n">>,
      <<"c", "o", "m", "p", "u", "t", "e", "r", " ", "v", "i", "s", "i", "o", "n">>,
      <<"n", "a", "t", "u", "r", "a", "l", " ", "l", "a", "n", "g", "u", "a", "g", "e">>,
      <<"n", "l", "p">>,
      <<"r", "o", "b", "o", "t", "i", "c", "s">>,
      <<"c", "h", "a", "t", "b", "o", "t">>,
      <<"l", "l", "m">>,
      <<"g", "p", "t">>,
      <<"t", "r", "a", "n", "s", "f", "o", "r", "m", "e", "r">>,
      <<"o", "p", "e", "n", "a", "i">>,
      <<"c", "l", "a", "u", "d", "e">>>>

\* lines 129-134: the keywords looked for, as they are written
ai_keywords ==
    <<<<"a", "r", "t", "i", "f", "i", "c", "i", "a", "l", " ", "i", "n", "t", "e", "l", "l", "i", "g", "e", "n", "c", "e">>,
      <<"m", "a", "c", "h", "i", "n", "e", " ", "l", "e", "a", "r", "n", "i", "n", "g">>,
      <<"d", "e", "e", "p", " ", "l", "e", "a", "r", "n", "i", "n", "g">>,
      <<"n", "e", "u", "r", "a", "l", " ", "n", "e", "t", "w", "o", "r", "k">>,
      <<"A", "I">>,
      <<"M", "L">>,
      <<"a", "l", "g", "o", "r", "i", "t", "h", "m">>,
      <<"a", "u", "t", "o", "m", "a", "t", "i", "o", "n">>,
      <<"c", "o", "m", "p", "u", "t", "e", "r", " ", "v", "i", "s", "i", "o", "n">>,
      <<"n", "a", "t", "u", "r", "a", "l", " ", "l", "a", "n", "g", "u", "a", "g", "e">>,
      <<"r", "o", "b", "o", "t", "i", "c", "s">>,
      <<"c", "h", "a", "t", "b", "o", "t">>,
      <<"L", "L", "M">>,
      <<"t", "r", "a", "n", "s", "f", "o", "r", "m", "e", "r">>,
      <<"G", "P", "T">>,
      <<"B", "E", "R", "T">>,
      <<"c", "l", "a", "u", "d", "e">>,
      <<"o", "p", "e", "n", "a", "i">>>>


\* summary[:300]: the cut of a long summary
SummaryLimit == 300

\* Texts that the feeds and the research sources deliver.  long_summary has
\* SummaryLimit + 3 characters and its only term lies after the cut.
Text ==
    [ai_news |-> <<"A", "I", " ", "N", "e", "w", "s">>,
     new_model |-> <<"<", "p", ">", "N", "e", "w", " ", " ", "m", "o", "d",
                     "e", "l", "<", "/", "p", ">", "\n">>,
     pasta |-> <<"P", "a", "s", "t", "a">>,
     sauce |-> <<"H", "o", "w", " ", "t", "o", " ", "m", "a", "k", "e", " ",
                 "s", "a", "u", "c", "e">>,
     maintain |-> <<"M", "a", "i", "n", "t", "a", "i", "n">>,
     gpt |-> <<"G", "P", "T">>,
     about_ai |-> <<"A", "b", "o", "u", "t", " ", "A", "I">>,
     link |-> <<"h", "t", "t", "p", "s", ":", "/", "/", "e", "x", "a", "m",
                "p", "l", "e", ".", "c", "o", "m", "/", "1">>,
     long_summary |-> [i \in 1..SummaryLimit |-> "x"] \o <<" ", "A", "I">>,
     paper_title |-> <<" ", " ", "L", "e", "a", "r", "n", "i", "n", "g", " ",
                       "t", "o", " ", "r", "a", "n", "k", " ", "\n">>,
     paper_summary |-> <<"W", "e", " ", "r", "a", "n", "k", ".">>,
     arxiv_id |-> <<"h", "t", "t", "p", ":", "/", "/", "a", "r", "x", "i",
                    "v", ".", "o", "r", "g", "/", "a", "b", "s", "/", "2",
                    "4", "0", "1", ".", "1">>,
     scholar_title |-> <<"G", "r", "a", "p", "h", "s">>,
     scholar_url |-> <<"h", "t", "t", "p", "s", ":", "/", "/", "s", "2", ".",
                       "e", "x", "a", "m", "p", "l", "e", "/", "p", "1">>,
     author |-> <<"A", ".", " ", "A", "u", "t", "h", "o", "r">>]

\* line 88 of the feed collector, lines 83 and 198 of the research collector:
\* the title of an entry that has none
NoTitleFeed == <<"N", "o", " ", "T", "i", "t", "l", "e">>
NoTitleResearch == <<"N", "o", " ", "t", "i", "t", "l", "e">>

\* lines 126-146
ExtractSimpleKeywords(text) ==
    IF text = <<>> THEN <<>>
    ELSE Slice(SelectSeq(ai_keywords,
                         LAMBDA k : Contains(Lower(text), Lower(k))), 5)

\* every entry is taken for AI-related
IsAiRelatedMutAlways(item) == TRUE

\* lines 148-159
IsAiRelated(item) ==
    LET text == Lower(Get(item, "title", <<>>) \o <<" ">> \o
                      Get(item, "summary", <<>>))
    IN \E k \in 1..Len(ai_terms) : Contains(text, ai_terms[k])

\* the day the feeds are read: datetime.now() of line 93
FetchDay == 4

\* lines 80-85.  A feed entry holds the members the feed gave it:
\* hasattr(entry, k) is k \in DOMAIN feed_entry.
EntrySummary(feed_entry) ==
    IF "summary" \in DOMAIN feed_entry THEN CleanHtml(feed_entry.summary)
    ELSE IF "description" \in DOMAIN feed_entry
         THEN CleanHtml(feed_entry.description)
    ELSE <<>>

\* lines 87-96, for an entry that has a title
EntryItem(feed_entry, source) ==
    LET summary == EntrySummary(feed_entry)
    IN [title |-> Get(feed_entry, "title", NoTitleFeed),
        summary |-> IF Len(summary) > SummaryLimit
                    THEN Slice(summary, SummaryLimit) \o <<".", ".", ".">>
                    ELSE summary,
        url |-> Get(feed_entry, "link", <<>>),
        source |-> source.name,
        category |-> source.category,
        published_date |-> IsoFormat(FetchDay),
        collector |-> "rss",
        keywords |->
           ExtractSimpleKeywords(feed_entry.title \o <<" ">> \o summary)]

\* feed.entries[:5]
EntryLimit == 5

\* lines 78-105: the loop over the entries, from entry i on; line 95 reads
\* entry.title without asking whether it is there, and the entry is skipped
RECURSIVE ParseEntriesFrom(_, _, _)
ParseEntriesFrom(entries, i, source) ==
    IF i > Len(entries) THEN <<>>
    ELSE LET rest == ParseEntriesFrom(entries, i + 1, source)
         IN IF "title" \notin DOMAIN entries[i] THEN rest
            ELSE IF IsAiRelated(EntryItem(entries[i], source))
                 THEN <<EntryItem(entries[i], source)>> \o rest
            ELSE rest

\* lines 72-111
ParseRssContent(entries, source) ==
    ParseEntriesFrom(Slice(entries, EntryLimit), 1, source)

\* lines 17-40
rss_sources ==
    <<[name |-> "MIT Technology Review AI", category |-> "News"],
      [name |-> "Anthropic Blog", category |-> "AI Research"],
      [name |-> "OpenAI Blog", category |-> "Company Blog"],
      [name |-> "Google AI Blog", category |-> "Company Blog"]>>

\* what a source answers: the request raises, a status that is not the one
\* of success, or the entries (the records) it delivers
Fetched(kind, entries) == [kind |-> kind, entries |-> entries]
FetchFailures == {Fetched("raises", <<>>), Fetched("status", <<>>)}

\* the answers of a feed: a failure, three entries of which one is about AI,
\* one is not and one has no title, and six entries (one more than is read)
FeedMixed ==
    <<[title |-> Text.ai_news, summary |-> Text.new_model, link |-> Text.link],
      [title |-> Text.pasta, description |-> Text.sauce],
      [summary |-> Text.about_ai, link |-> Text.link]>>
FeedMany ==
    <<[title |-> Text.maintain, link |-> Text.link],
      [title |-> Text.pasta, summary |-> Text.long_summary],
      [title |-> Text.pasta, description |-> Text.sauce],
      [title |-> Text.pasta, description |-> Text.sauce],
      [title |-> Text.gpt, summary |-> Text.sauce],
      FeedMixed[1]>>
FeedOutcomes ==
    FetchFailures \cup {Fetched("ok", FeedMixed), Fetched("ok", FeedMany)}

\* lines 56-70
FetchRssFeed(source, outcome) ==
    IF outcome.kind # "ok" THEN <<>>
    ELSE ParseRssContent(outcome.entries, source)

\* every fetch of a default source, worked out once
FeedItems ==
    [i \in 1..Len(rss_sources), o \in FeedOutcomes |->
        FetchRssFeed(rss_sources[i], o)]

\* lines 49-51: the loop over the first n sources, from source i on
RECURSIVE GatherFrom(_, _, _)
GatherFrom(n, i, outcomes) ==
    IF i > n THEN <<>>
    ELSE FeedItems[i, outcomes[i]] \o GatherFrom(n, i + 1, outcomes)

\* line 47; None (held as 0) and 0 both take every source
SourcesToProcess(max_sources) ==
    IF max_sources # 0 THEN Slice(rss_sources, max_sources) ELSE rss_sources

\* lines 42-54
GatherRssData(max_sources, outcomes) ==
    GatherFrom(Len(SourcesToProcess(max_sources)), 1, outcomes)

\* ---- the research collector
\* An element of the arXiv answer: its text, None for an empty element.
Elem(text) == [empty |-> FALSE, text |-> text]

\* text.split('/')[-1]
LastSegment(text) ==
    LET slashes == {i \in 1..Len(text) : text[i] = "/"}
    IN IF slashes = {} THEN text
       ELSE SubSeq(text, Last(slashes) + 1, Len(text))

\* lines 82-117, for an entry that does not raise
ArxivPaper(xml_entry) ==
    [title |-> IF "title" \in DOMAIN xml_entry
               THEN StripText(xml_entry.title.text)
               ELSE NoTitleResearch,
     summary |-> IF "summary" \in DOMAIN xml_entry
                 THEN StripText(xml_entry.summary.text)
                 ELSE <<"N", "o", " ", "s", "u", "m", "m", "a", "r", "y">>,
     url |-> IF "id" \in DOMAIN xml_entry
             THEN <<"h", "t", "t", "p", "s", ":", "/", "/", "a", "r", "x",
                    "i", "v", ".", "o", "r", "g", "/", "a", "b", "s", "/">>
                  \o LastSegment(xml_entry.id.text)
             ELSE <<"N", "o", " ", "U", "R", "L", " ", "a", "v", "a", "i",
                    "l", "a", "b", "l", "e">>,
     source |-> "arXiv",
     published_date |-> IF "published" \in DOMAIN xml_entry
                        THEN xml_entry.published.text ELSE <<>>,
     authors |-> Get(xml_entry, "authors", <<>>),
     category |-> "Research Paper"]

\* lines 79-123; .text.strip() and .text.split() of lines 83, 87 and 92
\* raise on an empty element, and the entry is skipped
RECURSIVE ArxivPapersFrom(_, _)
ArxivPapersFrom(entries, i) ==
    IF i > Len(entries) THEN <<>>
    ELSE IF \E k \in {"title", "summary", "id"} \cap DOMAIN entries[i] :
               entries[i][k].empty
         THEN ArxivPapersFrom(entries, i + 1)
    ELSE <<ArxivPaper(entries[i])>> \o ArxivPapersFrom(entries, i + 1)

\* lines 46-130: a request that fails and an answer that is not the feed
\* both end in the except branch
CollectFromArxiv(outcome) ==
    IF outcome.kind # "ok" THEN <<>> ELSE ArxivPapersFrom(outcome.entries, 1)

\* lines 193-208
ScholarPaper(item) ==
    [title |-> Get(item, "title", NoTitleResearch),
     summary |-> Get(item, "abstract",
                     <<"N", "o", " ", "a", "b", "s", "t", "r", "a", "c", "t",
                       " ", "a", "v", "a", "i", "l", "a", "b", "l", "e">>),
     url |-> Get(item, "url", <<"N", "o", " ", "U", "R", "L">>),
     source |-> "Semantic Scholar",
     published_date |-> Get(item, "publicationDate", <<>>),
     authors |-> IF "authors" \in DOMAIN item
                 THEN [i \in 1..Len(item.authors) |->
                          Get(item.authors[i], "name",
                              <<"U", "n", "k", "n", "o", "w", "n">>)]
                 ELSE <<>>,
     category |-> "Research Paper",
     venue |-> Get(item, "venue", <<>>),
     citation_count |-> Get(item, "citationCount", 0),
     year |-> Get(item, "year", <<>>)]

\* lines 144-221, after the rate limiter: a request that fails twice, the
\* status 429, another status that is not 200, or the answer
CollectFromSemanticScholar(outcome) ==
    IF outcome.kind # "ok" THEN <<>>
    ELSE [i \in 1..Len(outcome.entries) |-> ScholarPaper(outcome.entries[i])]

\* the sources asked in the other order: the rate-limited one first, and
\* nothing asked of the other when it fails
GatherResearchDataMutAbort(arxiv, scholar) ==
    IF scholar.kind # "ok" THEN <<>>
    ELSE CollectFromArxiv(arxiv) \o CollectFromSemanticScholar(scholar)

\* lines 26-44
GatherResearchData(arxiv, scholar) ==
    CollectFromArxiv(arxiv) \o CollectFromSemanticScholar(scholar)

\* the answers of arXiv: a failure, one entry, and three entries of which
\* one has no title and one an empty title
ArxivOutcomes ==
    LET full == [title |-> Elem(Text.paper_title),
                 summary |-> Elem(Text.paper_summary),
                 id |-> Elem(Text.arxiv_id), authors |-> <<Text.author>>]
    IN FetchFailures \cup
       {Fetched("ok", <<full>>),
        Fetched("ok", <<[summary |-> Elem(Text.paper_summary)],
                        [title |-> [empty |-> TRUE, text |-> <<>>],
                         id |-> Elem(Text.arxiv_id)],
                        full>>)}

\* the answers of Semantic Scholar: a failure, the status 429, no paper, and
\* two papers of which one has no title
ScholarOutcomes ==
    FetchFailures \cup
    {Fetched("status 429", <<>>), Fetched("ok", <<>>),
     Fetched("ok", <<[title |-> Text.scholar_title, url |-> Text.scholar_url,
                      citationCount |-> 7,
                      authors |-> <<[name |-> Text.author],
                                    [authorId |-> Text.gpt]>>],
                     [url |-> Text.scholar_url]>>)}

\* time.time() is counted in ticks; the limiter's 1.0 second
TicksPerSecond == 2
MaxTicks == 6

\* lines 137-139: the ticks to sleep when the call starts at t
RateLimitSleepMutNone(t, last) == 0

RateLimitSleep(t, last) ==
    IF t - last < TicksPerSecond THEN TicksPerSecond - (t - last) ELSE 0

\* a call of a method of a collector: the method, its argument and what the
\* sources answered (Unasked: no source asked)
Unasked == Fetched("unasked", <<>>)

Gather(op, max_sources, arxiv, scholar, feeds, t) ==
    [op |-> op, max_sources |-> max_sources, arxiv |-> arxiv,
     scholar |-> scholar, feeds |-> feeds, started |-> t]
NoGather == Gather("none", 0, Unasked, Unasked, <<>>, 0)

\* --------------------------------------------------------------- notifier
\* os.getenv of a variable that is not set; `not self.bot_token` and
\* `not self.chat_id` are true of these values
NoToken == ""
NoChatId == 0

\* the module-level CONTENT_ENGINE_HTTPS
content_engine_https == "https://engine.example"

\* A message text is its sequence of lines; a line of the digest that names
\* an item carries the item's number.
Line(kind, n, s) == [kind |-> kind, n |-> n, s |-> s]

\* line 68
NoArticlesText ==
    <<Line("text", 0, "Daily AI Summary"), Line("blank", 0, ""),
      Line("text", 0, "No articles found today.")>>

\* datetime.now().strftime('%B %d') on the day d of the month
StrfTime(d) == IF d = 4 THEN "November 04" ELSE "November 05"

\* lines 73-79: the heading, then for item i its two lines and a blank line
DigestText(articles_, d) ==
    <<Line("header", 0, StrfTime(d)),
      Line("blank", 0, ""),
      Line("link", 0, content_engine_https),
      Line("blank", 0, ""),
      Line("text", 0, "Top Articles:"),
      Line("blank", 0, "")>> \o
    [k \in 1..(3 * Len(articles_)) |->
        LET i == (k + 2) \div 3
        IN IF k % 3 = 1 THEN Line("item", i, articles_[i].title)
           ELSE IF k % 3 = 2 THEN Line("url", i, articles_[i].url)
           ELSE Line("blank", 0, "")]

\* What the chat API answers.  getUpdates: the request raises, a status
\* other than 200, or 200 with the list of inbound updates, of which only
\* some carry a 'message' member.  sendMessage: the same three kinds.
Response(kind, result) == [kind |-> kind, result |-> result]
MaxUpdates == 2

GetOutcomes ==
    {Response("raises", <<>>), Response("status", <<>>)} \cup
    {Response("ok", r) :
        r \in SeqsUpTo({[has_message |-> TRUE, chat |-> 1],
                        [has_message |-> TRUE, chat |-> 2],
                        [has_message |-> FALSE, chat |-> NoChatId]},
                       MaxUpdates)}

PostOutcomes ==
    {Response("raises", <<>>), Response("status", <<>>), Response("ok", <<>>)}

\* an outbound request and what came of it
HttpCall(endpoint, chat, text, outcome) ==
    [endpoint |-> endpoint, chat_id |-> chat, text |-> text,
     outcome |-> outcome]

\* what a call of a method of the bot did: the value it returned ("raised"
\* when it left by an exception), the chat id it left in the object and the
\* requests it made
Done(ret, chat, calls) == [ret |-> ret, chat_id |-> chat, calls |-> calls]

\* lines 15-37
SetChatId(token, chat, get) ==
    LET call == HttpCall("getUpdates", chat, <<>>, get)
    IN IF token = NoToken THEN Done("None", chat, <<>>)
       ELSE IF get.kind = "raises" THEN Done("raised", chat, <<call>>)
       ELSE IF get.kind = "status" THEN Done("None", chat, <<call>>)
       ELSE IF get.result = <<>> THEN Done("None", chat, <<call>>)
       ELSE LET last == get.result[Len(get.result)]
            IN IF ~last.has_message THEN Done("raised", chat, <<call>>)
               ELSE Done("self.chat_id", last.chat, <<call>>)

\* the discovered chat id is not kept in the object
SendMessageMutForgets(token, chat, text, get, post) ==
    IF token = NoToken THEN Done("False", chat, <<>>)
    ELSE IF chat = NoChatId
         THEN LET s == SetChatId(token, chat, get)
              IN Done(IF s.ret = "raised" THEN "raised" ELSE "False",
                      chat, s.calls)
    ELSE Done(IF post.kind = "ok" THEN "True" ELSE "False", chat,
              <<HttpCall("sendMessage", chat, text, post)>>)

\* the discovery repeated until it has answered
SendMessageMutRetry(token, chat, text, get, post) ==
    IF token = NoToken THEN Done("False", chat, <<>>)
    ELSE IF chat = NoChatId
         THEN LET s == SetChatId(token, chat, get)
              IN Done(IF s.ret = "raised" THEN "raised" ELSE "False",
                      s.chat_id, s.calls \o s.calls)
    ELSE Done(IF post.kind = "ok" THEN "True" ELSE "False", chat,
              <<HttpCall("sendMessage", chat, text, post)>>)

\* lines 39-61
SendMessage(token, chat, text, get, post) ==
    IF token = NoToken THEN Done("False", chat, <<>>)
    ELSE IF chat = NoChatId
         THEN LET s == SetChatId(token, chat, get)
              IN Done(IF s.ret = "raised" THEN "raised" ELSE "False",
                      s.chat_id, s.calls)
    ELSE Done(IF post.kind = "ok" THEN "True" ELSE "False", chat,
              <<HttpCall("sendMessage", chat, text, post)>>)

\* lines 66-81: the text handed to send_message
SummaryTextMutEmptyDigest(articles_, d) == DigestText(articles_, d)

SummaryText(articles_, d) ==
    IF Len(articles_) = 0 THEN NoArticlesText ELSE DigestText(articles_, d)

\* lines 63-81
SendDailySummary(token, chat, articles_, d, get, post) ==
    LET s == SendMessage(token, chat, SummaryText(articles_, d), get, post)
    IN Done(IF s.ret = "raised" THEN "raised" ELSE "None", s.chat_id, s.calls)

\* a call of a method of the bot: the method, its argument, the text it gave
\* to send_message and the chat id the object held when it was called
BotCall(op, articles_, text, chat) ==
    [op |-> op, articles |-> articles_, text |-> text, chat_id |-> chat]
NoCall == BotCall("none", <<>>, <<>>, NoChatId)

\* ----------------------------------------------------- presentation layer
WebTopN == 10        \* run_complete_pipeline(top_n=10) of load_feed_data

\* open(data_file, 'w') has emptied the file and json.dump has not finished:
\* the file exists and holds no complete JSON document
OpenForWriting(old) == [exists |-> TRUE, text |-> [truncated |-> TRUE]]

\* json.dump writes the document piece by piece: the file holds the
\* beginning of it, with the first k items, and no closing bracket yet
PartWritten(feed, k) ==
    [exists |-> TRUE,
     text |-> [truncated |-> TRUE,
               last_updated |-> JsonDump(feed).last_updated,
               content_ideas |-> SubSeq(JsonDump(feed).content_ideas, 1, k)]]

\* a file is used as soon as its last_updated can be seen
CachedMutUnfinished(file) ==
    file.exists /\ "last_updated" \in DOMAIN file.text

\* the file is never used
CachedMutNever(file) == FALSE

\* lines 15-22 of app.py: the try block returns; json.load raises
\* JSONDecodeError on a file that holds no complete document
Cached(file) ==
    /\ file.exists
    /\ "truncated" \notin DOMAIN file.text
    /\ "last_updated" \in DOMAIN JsonLoad(file.text)

\* line 20 of app.py
CachedIdeas(file) == Get(JsonLoad(file.text), "content_ideas", <<>>)

\* line 28 of app.py
ResultIdeas(res) ==
    IF res = NoResult THEN <<>> ELSE Get(res, "content_ideas", <<>>)

\* a call of load_feed_data: the file as the call found it and the branch
\* it took
FeedCall(file, branch) == [found |-> file, branch |-> branch]
NoLoad == FeedCall(NoFile, "none")

VARIABLES
    has_key,          \* OPENAI_API_KEY is set: both clients exist
    pc,               \* position of the run in progress, "idle" when none
    entry,            \* "pipeline", "notify" or "weekly": who started the run
    top_n,
    runs,             \* runs started so far
    clock,            \* readings of datetime.now() so far
    started,          \* clock when the run in progress started
    stages,           \* stages the run in progress has finished, in order
    raw_data,
    articles_in,      \* structured_data as the Rank stage received it
    structured_data,
    scored,           \* what score_content_relevance returned
    rank_raised,      \* the scoring pass was aborted by an exception
    embeddings,       \* what _get_embedding returned during that pass,
                      \* in the specification that keeps a log of it
    ranked_content,
    lm_outcomes,      \* outcome of the chat request of each ranked article
    lm_requests,      \* chat requests issued by the run in progress
    final_ideas,
    results,          \* what run_complete_pipeline returned
    snapshot,         \* data/latest_feed.json
    prev_snapshot,    \* the snapshot as the run in progress found it
    articles,         \* the list handed to send_daily_summary
    bot_token,        \* TelegramBot.bot_token
    chat_id,          \* TelegramBot.chat_id
    bot_call,         \* the latest call of a method of the bot
    messages,         \* the texts that call handed to send_message
    http_calls,       \* the requests that call made
    bot_return,       \* what that call returned, "raised" for an exception
    now,              \* time.time(), in ticks
    last_semantic_scholar_call,
    prev_semantic_scholar_call,  \* the value the latest call replaced
    scholar_calls,    \* calls of collect_from_semantic_scholar, 2 for more
    gather_call,      \* the latest call of a method of a collector
    gathered,         \* the list that call returned
    web_pc,           \* where the latest call of load_feed_data stands
    feed_call,        \* that call
    loaded,           \* the list that call returned
    loop,             \* where the main loop of the scheduler stands
    minutes           \* sleeps of that loop since the job was scheduled

pipeline == <<has_key, pc, entry, top_n, runs, clock, started, stages,
              raw_data, articles_in, structured_data, scored, rank_raised,
              embeddings, ranked_content, lm_outcomes, lm_requests,
              final_ideas, results, snapshot, prev_snapshot, articles>>

notifier == <<bot_token, chat_id, bot_call, messages, http_calls, bot_return>>

collectors == <<now, last_semantic_scholar_call, prev_semantic_scholar_call,
                scholar_calls, gather_call, gathered>>

web == <<web_pc, feed_call, loaded>>

scheduler == <<loop, minutes>>

others == <<notifier, collectors, web, scheduler>>

vars == <<pipeline, others>>

locals == <<raw_data, articles_in, structured_data, scored, rank_raised,
            embeddings, ranked_content, lm_outcomes, lm_requests, final_ideas>>

NoLocals ==
    /\ raw_data' = [research |-> <<>>, rss |-> <<>>]
    /\ articles_in' = <<>>
    /\ structured_data' = <<>>
    /\ scored' = <<>>
    /\ rank_raised' = FALSE
    /\ embeddings' = NoRequests
    /\ ranked_content' = <<>>
    /\ lm_outcomes' = <<>>
    /\ lm_requests' = 0
    /\ final_ideas' = <<>>

\* no bot is in use: nothing is configured and nothing has been called
NotifierIdle ==
    /\ bot_token = NoToken
    /\ chat_id = NoChatId
    /\ bot_call = NoCall
    /\ messages = <<>>
    /\ http_calls = <<>>
    /\ bot_return = "none"

\* ResearchCollector() and RSSCollector(), with the clock at t
CollectorsAt(t) ==
    /\ now = t
    /\ last_semantic_scholar_call = 0
    /\ prev_semantic_scholar_call = 0
    /\ scholar_calls = 0
    /\ gather_call = NoGather
    /\ gathered = <<>>

\* the web app has served no request
WebIdle ==
    /\ web_pc = "idle"
    /\ feed_call = NoLoad
    /\ loaded = <<>>

\* scheduler.py is not running as a program
SchedulerOff ==
    /\ loop = "off"
    /\ minutes = 0

PipelineInit ==
    /\ has_key \in BOOLEAN
    /\ pc = "idle"
    /\ entry = "none"
    /\ top_n = DefaultTopN
    /\ runs = 0
    /\ clock = 0
    /\ started = 0
    /\ stages = <<>>
    /\ raw_data = [research |-> <<>>, rss |-> <<>>]
    /\ articles_in = <<>>
    /\ structured_data = <<>>
    /\ scored = <<>>
    /\ rank_raised = FALSE
    /\ embeddings = NoRequests
    /\ ranked_content = <<>>
    /\ lm_outcomes = <<>>
    /\ lm_requests = 0
    /\ final_ideas = <<>>
    /\ results = NoResult
    /\ snapshot = NoFile
    /\ prev_snapshot = NoFile
    /\ articles = <<>>

Init ==
    /\ PipelineInit /\ NotifierIdle /\ CollectorsAt(TicksPerSecond)
    /\ WebIdle /\ SchedulerOff

\* run_complete_pipeline(top_n) is called
StartRun(e, n, limit) ==
    /\ pc = "idle"
    /\ runs < limit
    /\ pc' = "collect"
    /\ entry' = e
    /\ top_n' = n
    /\ runs' = runs + 1
    /\ started' = clock
    /\ stages' = <<>>
    /\ results' = NoResult
    /\ prev_snapshot' = snapshot
    /\ articles' = <<>>
    /\ NoLocals
    /\ UNCHANGED <<has_key, clock, snapshot>>
    /\ UNCHANGED others

\* line 156, line 18 of the scheduler: the default top_n
StartOrchestrated(limit) ==
    \E e \in {"notify", "weekly"} : StartRun(e, DefaultTopN, limit)

\* a caller of run_complete_pipeline with its own top_n
StartPipeline(limit) ==
    \E n \in (-1..MaxTopN) \cup {DefaultTopN} : StartRun("pipeline", n, limit)

\* line 115
Collect(rawsets) ==
    /\ pc = "collect"
    /\ \E d \in rawsets : raw_data' = d
    /\ pc' = "structure"
    /\ stages' = Append(stages, "collect")
    /\ UNCHANGED <<has_key, entry, top_n, runs, clock, started, articles_in,
                   structured_data, scored, rank_raised, embeddings,
                   ranked_content, lm_outcomes, lm_requests, final_ideas,
                   results, snapshot, prev_snapshot, articles>>
    /\ UNCHANGED others

\* line 118
Structure ==
    /\ pc = "structure"
    /\ structured_data' = CleanAndStructureData(raw_data)
    /\ pc' = "rank"
    /\ stages' = Append(stages, "structure")
    /\ UNCHANGED <<has_key, entry, top_n, runs, clock, started, raw_data,
                   articles_in, scored, rank_raised, embeddings,
                   ranked_content, lm_outcomes, lm_requests, final_ideas,
                   results, snapshot, prev_snapshot, articles>>
    /\ UNCHANGED others

\* line 121: score, sort, rank and truncate
Rank(refs, embsets) ==
    /\ pc = "rank"
    /\ \E ref \in refs :
       \E embs \in [1..Len(structured_data) -> embsets] :
          LET r == RankContentByRelevance(has_key, structured_data, top_n,
                                          ref, embs)
          IN /\ articles_in' = structured_data
             /\ structured_data' = r.articles
             /\ scored' = r.scored
             /\ rank_raised' = r.raised
             /\ ranked_content' = r.top
    /\ pc' = "enrich"
    /\ stages' = Append(stages, "rank")
    /\ UNCHANGED <<has_key, entry, top_n, runs, clock, started, raw_data,
                   embeddings, lm_outcomes, lm_requests, final_ideas, results,
                   snapshot, prev_snapshot, articles>>
    /\ UNCHANGED others

\* line 121, with a log of what the embedding requests returned
RankLogged(refs, embsets) ==
    /\ pc = "rank"
    /\ \E ref \in refs :
       \E embs \in [1..Len(structured_data) -> embsets] :
          LET r == RankContentByRelevance(has_key, structured_data, top_n,
                                          ref, embs)
          IN /\ articles_in' = structured_data
             /\ structured_data' = r.articles
             /\ scored' = r.scored
             /\ rank_raised' = r.raised
             /\ embeddings' = IF has_key THEN Embedded(ref, embs)
                               ELSE NoRequests
             /\ ranked_content' = r.top
    /\ pc' = "enrich"
    /\ stages' = Append(stages, "rank")
    /\ UNCHANGED <<has_key, entry, top_n, runs, clock, started, raw_data,
                   lm_outcomes, lm_requests, final_ideas, results, snapshot,
                   prev_snapshot, articles>>
    /\ UNCHANGED others

\* line 124
Enrich(resps) ==
    /\ pc = "enrich"
    /\ \E outcomes \in [1..Len(ranked_content) -> resps] :
          /\ lm_outcomes' = outcomes
          /\ final_ideas' =
                GenerateCreativeIdeas(has_key, ranked_content, outcomes)
          /\ ranked_content' =
                ArticlesAfterIdeas(has_key, ranked_content, outcomes)
    /\ lm_requests' = lm_requests + IdeaRequests(has_key, ranked_content)
    /\ pc' = "summary"
    /\ stages' = Append(stages, "enrich")
    /\ UNCHANGED <<has_key, entry, top_n, runs, clock, started, raw_data,
                   articles_in, structured_data, scored, rank_raised,
                   embeddings, results, snapshot, prev_snapshot, articles>>
    /\ UNCHANGED others

\* lines 127-138: build the summary and return it
RunSummaryMutEmptyFails(t, raw, structured, ranked, ideas) ==
    IF ideas = <<>> THEN FailedResults(t, "list index out of range")
    ELSE PipelineResults(t, raw, structured, ranked, ideas)

RunSummary(t, raw, structured, ranked, ideas) ==
    PipelineResults(t, raw, structured, ranked, ideas)

Summary ==
    /\ pc = "summary"
    /\ clock' = clock + 1
    /\ results' = RunSummary(clock', raw_data, structured_data,
                             ranked_content, final_ideas)
    /\ pc' = "returned"
    /\ UNCHANGED <<has_key, entry, top_n, runs, started, stages, locals,
                   snapshot, prev_snapshot, articles>>
    /\ UNCHANGED others

\* run_complete_pipeline returns to its caller: its locals are gone
Return ==
    /\ pc = "returned"
    /\ pc' = IF entry = "pipeline" THEN "idle" ELSE "persist"
    /\ NoLocals
    /\ UNCHANGED <<has_key, entry, top_n, runs, clock, started, stages,
                   results, snapshot, prev_snapshot, articles>>
    /\ UNCHANGED others

\* lines 159-168 of the orchestrator, 21-30 of the scheduler
Persist ==
    /\ pc = "persist"
    /\ clock' = clock + 1
    /\ snapshot' = WriteSnapshot(snapshot, FeedData(clock', results))
    /\ pc' = "notify"
    /\ stages' = Append(stages, "persist")
    /\ UNCHANGED <<has_key, entry, top_n, runs, started, locals, results,
                   prev_snapshot, articles>>
    /\ UNCHANGED others

\* another key of the feed asked for
ReadArticlesMutWrongKey(file) ==
    Get(JsonLoad(file.text), "ranked_articles", <<>>)

\* lines 173-179 of the orchestrator, 35-41 of the scheduler
ReadArticles(file) == Get(JsonLoad(file.text), "content_ideas", <<>>)

Notify ==
    /\ pc = "notify"
    /\ articles' = ReadArticles(snapshot)
    /\ pc' = "notified"
    /\ stages' = Append(stages, "notify")
    /\ UNCHANGED <<has_key, entry, top_n, runs, clock, started, locals,
                   results, snapshot, prev_snapshot>>
    /\ UNCHANGED others

\* the orchestrated run is over
Finish ==
    /\ pc = "notified"
    /\ pc' = "idle"
    /\ UNCHANGED <<has_key, entry, top_n, runs, clock, started, stages,
                   locals, results, snapshot, prev_snapshot, articles>>
    /\ UNCHANGED others

\* Calls of run_complete_pipeline, with every outcome of the services: each
\* chat request fails or answers.  What the text of an answer can be is
\* looked at in the specification of the idea generator alone.
Next ==
    \/ StartPipeline(MaxRuns)
    \/ Collect(GatherAllData)
    \/ Structure
    \/ Rank(RefEmbeddings, ItemEmbeddings)
    \/ Enrich({RequestFailed, RespTwoLines})
    \/ Summary
    \/ Return

Spec == Init /\ [][Next]_vars

\* Orchestrated runs one after another (generate_content_and_notify and the
\* scheduler's run_weekly_summary), with a service that answers: the snapshot
\* is what one run leaves to the next.
HealthyEmbeddings == {VecRef}
HealthyResponses == {RespTwoLines}

NextRuns ==
    \/ StartOrchestrated(MaxRuns)
    \/ Collect(GatherAllData)
    \/ Structure
    \/ Rank({VecRef}, HealthyEmbeddings)
    \/ Enrich(HealthyResponses)
    \/ Summary
    \/ Return
    \/ Persist
    \/ Notify
    \/ Finish

SpecRuns == Init /\ [][NextRuns]_vars

\* ------------------------------------------------------- the notifier alone
\* TelegramBot(): the token and the chat id are what the environment holds
NotifierInit ==
    /\ bot_token \in {NoToken, "123:abc"}
    /\ chat_id \in {NoChatId, 1}
    /\ bot_call = NoCall
    /\ messages = <<>>
    /\ http_calls = <<>>
    /\ bot_return = "none"

\* the call leaves its trace and the chat id in the object
BotDid(call, texts, done) ==
    /\ bot_call' = call
    /\ messages' = texts
    /\ http_calls' = done.calls
    /\ bot_return' = done.ret
    /\ chat_id' = done.chat_id
    /\ UNCHANGED <<bot_token, pipeline, collectors, web, scheduler>>

\* bot.set_chat_id()
CallSetChatId ==
    \E get \in GetOutcomes :
       BotDid(BotCall("set_chat_id", <<>>, <<>>, chat_id), <<>>,
              SetChatId(bot_token, chat_id, get))

\* The chat API answers the requests that are made: with no chat id held
\* send_message asks for the updates and posts nothing (line 44), with one it
\* posts and asks for nothing.
Asked(asks, outcomes) ==
    IF asks THEN outcomes ELSE {Response("unasked", <<>>)}

\* bot.send_message(text)
CallSendMessage ==
    \E text \in {NoArticlesText, <<Line("text", 0, "Test message")>>} :
    \E get \in Asked(chat_id = NoChatId, GetOutcomes) :
    \E post \in Asked(chat_id # NoChatId, PostOutcomes) :
       BotDid(BotCall("send_message", <<>>, text, chat_id), <<text>>,
              SendMessage(bot_token, chat_id, text, get, post))

\* bot.send_daily_summary(articles)
CallSendDailySummary ==
    \E list \in SeqsUpTo({StructuredItem(PaperML, "research"),
                          StructuredItem(PaperPasta, "research")}, MaxItems) :
    \E d \in 4..5 :
    \E get \in Asked(chat_id = NoChatId, GetOutcomes) :
    \E post \in Asked(chat_id # NoChatId, PostOutcomes) :
       BotDid(BotCall("send_daily_summary", list, SummaryText(list, d),
                      chat_id),
              <<SummaryText(list, d)>>,
              SendDailySummary(bot_token, chat_id, list, d, get, post))

NextNotifier ==
    \/ CallSetChatId
    \/ CallSendMessage
    \/ CallSendDailySummary

InitNotifier ==
    /\ PipelineInit /\ NotifierInit /\ CollectorsAt(TicksPerSecond)
    /\ WebIdle /\ SchedulerOff

SpecNotifier == InitNotifier /\ [][NextNotifier]_vars

\* ----------------------------------------------------- the collectors alone
\* the clock has been running for a second at least when a collector is made
CollectorsInit == \E t \in TicksPerSecond..(TicksPerSecond + 1) : CollectorsAt(t)

\* time passes between two calls
Tick ==
    /\ now < MaxTicks
    /\ now' = now + 1
    /\ UNCHANGED <<last_semantic_scholar_call, prev_semantic_scholar_call,
                   scholar_calls, gather_call, gathered, pipeline, notifier,
                   web, scheduler>>

\* lines 137-142: the limiter sleeps, for `late` ticks more than it asked,
\* and records the time of the call
RateLimited(late) ==
    LET t == now + RateLimitSleep(now, last_semantic_scholar_call) + late
    IN /\ t <= MaxTicks
       /\ now' = t
       /\ last_semantic_scholar_call' = t
       /\ prev_semantic_scholar_call' = last_semantic_scholar_call
       /\ scholar_calls' = Min(scholar_calls + 1, 2)

\* collector.collect_from_semantic_scholar()
CallCollectFromSemanticScholar(lates) ==
    \E late \in lates : \E scholar \in ScholarOutcomes :
       /\ RateLimited(late)
       /\ gather_call' = Gather("collect_from_semantic_scholar", 0, Unasked,
                                scholar, <<>>, now)
       /\ gathered' = CollectFromSemanticScholar(scholar)
       /\ UNCHANGED <<pipeline, notifier, web, scheduler>>

\* collector.gather_research_data()
CallGatherResearchData(lates) ==
    \E late \in lates :
    \E arxiv \in ArxivOutcomes : \E scholar \in ScholarOutcomes :
       /\ RateLimited(late)
       /\ gather_call' = Gather("gather_research_data", 0, arxiv, scholar,
                                <<>>, now)
       /\ gathered' = GatherResearchData(arxiv, scholar)
       /\ UNCHANGED <<pipeline, notifier, web, scheduler>>

\* collector.gather_rss_data(max_sources); 0 stands for None
CallGatherRssData ==
    \E max_sources \in {0, 1} :
    \E feeds \in [1..Len(SourcesToProcess(max_sources)) -> FeedOutcomes] :
       /\ gather_call' = Gather("gather_rss_data", max_sources, Unasked,
                                Unasked, feeds, now)
       /\ gathered' = GatherRssData(max_sources, feeds)
       /\ UNCHANGED <<now, last_semantic_scholar_call,
                      prev_semantic_scholar_call, scholar_calls, pipeline,
                      notifier, web, scheduler>>

\* The two gather calls the Collect stage makes, one after the other, each
\* source answering or failing on its own.
NextCollectors ==
    \/ CallGatherResearchData({0})
    \/ CallGatherRssData

InitCollectors ==
    PipelineInit /\ NotifierIdle /\ CollectorsInit /\ WebIdle /\ SchedulerOff

SpecCollectors == InitCollectors /\ [][NextCollectors]_vars

\* The rate-limited source called again and again while time passes; a
\* sleep may last longer than asked.
MaxLate == 1

NextRateLimit ==
    \/ Tick
    \/ CallCollectFromSemanticScholar(0..MaxLate)
    \/ CallGatherResearchData(0..MaxLate)

SpecRateLimit == InitCollectors /\ [][NextRateLimit]_vars

\* --------------------------------------------------------- the ranker alone
\* score_content_relevance and get_top_content applied to every structured
\* list, the embeddings drawn from vectors of either direction.
InitRanker ==
    /\ has_key \in BOOLEAN
    /\ pc = "rank"
    /\ entry = "pipeline"
    /\ top_n = DefaultTopN
    /\ runs = 1
    /\ clock = 0
    /\ started = 0
    /\ stages = <<"collect", "structure">>
    /\ raw_data \in GatherAllData
    /\ articles_in = <<>>
    /\ structured_data = CleanAndStructureData(raw_data)
    /\ scored = <<>>
    /\ rank_raised = FALSE
    /\ embeddings = NoRequests
    /\ ranked_content = <<>>
    /\ lm_outcomes = <<>>
    /\ lm_requests = 0
    /\ final_ideas = <<>>
    /\ results = NoResult
    /\ snapshot = NoFile
    /\ prev_snapshot = NoFile
    /\ articles = <<>>
    /\ NotifierIdle
    /\ CollectorsAt(TicksPerSecond)
    /\ WebIdle
    /\ SchedulerOff

NextRanker == RankLogged(RefEmbeddings, SignedEmbeddings)

SpecRanker == InitRanker /\ [][NextRanker]_vars

\* Orchestrated runs in which an exception can leave run_complete_pipeline's
\* try block, with the bot the run constructs from the environment.
\* clean_and_structure_data (line 118) has no handler of its own: an
\* exception raised there reaches line 140 and the failed result is returned.
Abort ==
    /\ pc = "structure"
    /\ clock' = clock + 1
    /\ results' = FailedResults(clock', "error")
    /\ pc' = "returned"
    /\ UNCHANGED <<has_key, entry, top_n, runs, started, stages, locals,
                   snapshot, prev_snapshot, articles>>
    /\ UNCHANGED others

\* lines 173-179 of the orchestrator, 35-41 of the scheduler, with the call
\* of the bot.  The bot is local to the run: the next run constructs its own
\* from the environment, whatever chat id this one discovered.
NotifySummary(days, gets, posts) ==
    /\ pc = "notify"
    /\ articles' = ReadArticles(snapshot)
    /\ \E d \in days :
       \E get \in Asked(chat_id = NoChatId, gets) :
       \E post \in Asked(chat_id # NoChatId, posts) :
          LET text == SummaryText(articles', d)
              done == SendDailySummary(bot_token, chat_id, articles', d,
                                       get, post)
          IN /\ bot_call' = BotCall("send_daily_summary", articles', text,
                                    chat_id)
             /\ messages' = <<text>>
             /\ http_calls' = done.calls
             /\ bot_return' = done.ret
    /\ pc' = "notified"
    /\ stages' = Append(stages, "notify")
    /\ UNCHANGED <<has_key, entry, top_n, runs, clock, started, locals,
                   results, snapshot, prev_snapshot>>
    /\ UNCHANGED <<bot_token, chat_id, collectors, web, scheduler>>

InitFailing ==
    /\ PipelineInit /\ NotifierInit /\ CollectorsAt(TicksPerSecond)
    /\ WebIdle /\ SchedulerOff

NextFailing ==
    \/ StartOrchestrated(MaxRuns)
    \/ Collect({d \in GatherAllData : Len(d.research) + Len(d.rss) <= 1})
    \/ Structure
    \/ Abort
    \/ Rank({VecRef}, HealthyEmbeddings)
    \/ Enrich(HealthyResponses)
    \/ Summary
    \/ Return
    \/ Persist
    \/ NotifySummary(4..5, GetOutcomes, PostOutcomes)
    \/ Finish

SpecFailing == InitFailing /\ [][NextFailing]_vars

\* Calls of run_complete_pipeline whose result is looked at: every list the
\* collectors can return and every top_n, a scoring pass that completes, is
\* aborted or reorders, chat requests that fail or answer, and a run that
\* ends in the except branch.
NextResults ==
    \/ StartPipeline(MaxRuns)
    \/ Collect(GatherAllData)
    \/ Structure
    \/ Abort
    \/ Rank({VecRef}, {VecRef, VecNear, VecShort})
    \/ Enrich({RequestFailed, RespTwoLines})
    \/ Summary
    \/ Return

SpecResults == Init /\ [][NextResults]_vars

\* The idea generator alone: create_content_ideas, with a configured client,
\* on the one article a run has ranked; the chat request fails or answers
\* with any text of up to MaxTokens tokens.
InitIdeas ==
    /\ has_key = TRUE
    /\ pc = "enrich"
    /\ entry = "pipeline"
    /\ top_n = DefaultTopN
    /\ runs = 1
    /\ clock = 0
    /\ started = 0
    /\ stages = <<"collect", "structure", "rank">>
    /\ raw_data \in {d \in GatherAllData :
                         Len(d.research) + Len(d.rss) = 1}
    /\ articles_in = CleanAndStructureData(raw_data)
    /\ LET r == RankContentByRelevance(TRUE, articles_in, DefaultTopN,
                                       VecRef, [i \in {1} |-> VecNear])
       IN /\ structured_data = r.articles
          /\ scored = r.scored
          /\ rank_raised = r.raised
          /\ embeddings = NoRequests
          /\ ranked_content = r.top
    /\ lm_outcomes = <<>>
    /\ lm_requests = 0
    /\ final_ideas = <<>>
    /\ results = NoResult
    /\ snapshot = NoFile
    /\ prev_snapshot = NoFile
    /\ articles = <<>>
    /\ NotifierIdle
    /\ CollectorsAt(TicksPerSecond)
    /\ WebIdle
    /\ SchedulerOff

NextIdeas == Enrich(TokenResponses)

SpecIdeas == InitIdeas /\ [][NextIdeas]_vars

\* ------------------------------------------- the web app and the scheduler
\* The web app and the scheduler are two processes on one snapshot file.  A
\* scheduled run writes the file in two steps, and a request of the web app
\* may read it between them.  One pipeline runs at a time: the fallback run
\* of a request starts when no other run is in progress.

\* line 166 of the orchestrator, 28 of the scheduler: open(data_file, 'w')
OpenSnapshot ==
    /\ pc = "persist"
    /\ clock' = clock + 1
    /\ snapshot' = OpenForWriting(snapshot)
    /\ pc' = "dump"
    /\ UNCHANGED <<has_key, entry, top_n, runs, started, stages, locals,
                   results, prev_snapshot, articles>>
    /\ UNCHANGED others

\* json.dump under way: a part of the document has reached the file
FlushSnapshot ==
    /\ pc = "dump"
    /\ snapshot = OpenForWriting(prev_snapshot)
    /\ \E k \in 0..Len(FeedData(clock, results).content_ideas) :
          snapshot' = PartWritten(FeedData(clock, results), k)
    /\ UNCHANGED <<has_key, pc, entry, top_n, runs, clock, started, stages,
                   locals, results, prev_snapshot, articles>>
    /\ UNCHANGED others

\* line 167 of the orchestrator, 29 of the scheduler: json.dump(feed_data, f)
DumpSnapshot ==
    /\ pc = "dump"
    /\ snapshot' = WriteSnapshot(snapshot, FeedData(clock, results))
    /\ pc' = "notify"
    /\ stages' = Append(stages, "persist")
    /\ UNCHANGED <<has_key, entry, top_n, runs, clock, started, locals,
                   results, prev_snapshot, articles>>
    /\ UNCHANGED others

\* lines 12-25 of app.py: the cached list is returned, or the fallback is due
LoadFeedData ==
    /\ web_pc = "idle"
    /\ IF Cached(snapshot)
       THEN /\ loaded' = CachedIdeas(snapshot)
            /\ feed_call' = FeedCall(snapshot, "cached")
            /\ web_pc' = "idle"
       ELSE /\ loaded' = <<>>
            /\ feed_call' = FeedCall(snapshot, "fallback")
            /\ web_pc' = "fallback"
    /\ UNCHANGED <<pipeline, notifier, collectors, scheduler>>

\* lines 26-27 of app.py: ContentPipeline().run_complete_pipeline(top_n=10)
RunFallback(limit) ==
    /\ web_pc = "fallback"
    /\ StartRun("web", WebTopN, limit)

\* line 28 of app.py: the run has returned and its list is returned
ReturnFeed ==
    /\ web_pc = "fallback"
    /\ pc = "returned"
    /\ entry = "web"
    /\ loaded' = ResultIdeas(results)
    /\ web_pc' = "idle"
    /\ pc' = "idle"
    /\ NoLocals
    /\ UNCHANGED <<has_key, entry, top_n, runs, clock, started, stages,
                   results, snapshot, prev_snapshot, articles>>
    /\ UNCHANGED <<notifier, collectors, feed_call, scheduler>>

\* the runs of this specification collect one item at most
NextWeb ==
    \/ StartOrchestrated(MaxRuns)
    \/ Collect({d \in GatherAllData : Len(d.research) + Len(d.rss) <= 1})
    \/ Structure
    \/ Rank({VecRef}, HealthyEmbeddings)
    \/ Enrich(HealthyResponses)
    \/ Summary
    \/ (entry # "web" /\ Return)
    \/ OpenSnapshot
    \/ FlushSnapshot
    \/ DumpSnapshot
    \/ Notify
    \/ Finish
    \/ LoadFeedData
    \/ RunFallback(MaxRuns)
    \/ ReturnFeed

SpecWeb == Init /\ [][NextWeb]_vars

\* ------------------------------------------------- the scheduler's program
\* schedule.every(15).minutes, and a sleep of the loop lasts one minute
Every == 15

\* the exception of the run leaves run_weekly_summary
RunWeeklySummaryEndsMutReraise(raised) ==
    IF raised THEN "raised" ELSE "returned"

\* lines 11-46: how an invocation ends.  An exception raised in the try
\* block is caught at line 45 and printed, and the function returns.
RunWeeklySummaryEnds(raised) == "returned"

\* line 58: nothing to run while the job is not due; when it is,
\* run_pending calls run_weekly_summary (lines 11-17)
RunPending ==
    /\ loop = "run_pending"
    /\ \/ /\ minutes < Every
          /\ loop' = "sleep"
       \/ /\ minutes >= Every
          /\ runs < MaxRuns
          /\ loop' = "job"
    /\ UNCHANGED <<pipeline, notifier, collectors, web, minutes>>

\* line 18
CallPipeline ==
    /\ loop = "job"
    /\ StartRun("weekly", DefaultTopN, MaxRuns)

\* lines 41-46: send_daily_summary has returned or raised and the invocation
\* ends; the job is due in Every minutes again.  The loop (lines 57-59) has
\* no handler: an exception that leaves the job leaves the program.
JobEnds ==
    /\ loop = "job"
    /\ pc = "notified"
    /\ pc' = "idle"
    /\ loop' = IF RunWeeklySummaryEnds(bot_return = "raised") = "raised"
               THEN "stopped"
               ELSE "sleep"
    /\ minutes' = 0
    /\ UNCHANGED <<has_key, entry, top_n, runs, clock, started, stages,
                   locals, results, snapshot, prev_snapshot, articles>>
    /\ UNCHANGED <<notifier, collectors, web>>

\* line 59
Sleep ==
    /\ loop = "sleep"
    /\ minutes' = IF minutes < Every THEN minutes + 1 ELSE minutes
    /\ loop' = "run_pending"
    /\ UNCHANGED <<pipeline, notifier, collectors, web>>

\* line 51, then line 57: the job is registered, due in Every minutes, and
\* the loop is entered
InitScheduler ==
    /\ PipelineInit /\ NotifierInit /\ CollectorsAt(TicksPerSecond)
    /\ WebIdle
    /\ loop = "run_pending"
    /\ minutes = 0

\* the request for the updates raises, is refused, or is answered with one
\* update, with or without a message
DiscoveryOutcomes ==
    {get \in GetOutcomes : get.kind = "ok" => Len(get.result) = 1}

\* The scheduler's program from its start: the loop, and the runs it makes
\* with the bot each of them constructs from the environment; a run can end
\* in the except branch of run_complete_pipeline and the bot can raise.
NextScheduler ==
    \/ RunPending
    \/ CallPipeline
    \/ Collect({d \in GatherAllData : Len(d.research) + Len(d.rss) <= 1})
    \/ Structure
    \/ Abort
    \/ Rank({VecRef}, HealthyEmbeddings)
    \/ Enrich(HealthyResponses)
    \/ Summary
    \/ Return
    \/ Persist
    \/ NotifySummary({4}, DiscoveryOutcomes, PostOutcomes)
    \/ JobEnds
    \/ Sleep

\* The program is one thread that is never held for ever: the requests of a
\* run have timeouts and a sleep ends.
SpecScheduler ==
    InitScheduler /\ [][NextScheduler]_vars /\ WF_vars(NextScheduler)

\* ================================================================ claims
Has(d, k) == k \in DOMAIN d

\* every key of `old` is a key of `new` with the same value
Retains(new, old) == \A k \in DOMAIN old : Has(new, k) /\ new[k] = old[k]

\* the Rank stage is over and its locals are alive
AfterRank == pc \in {"enrich", "summary", "returned"}
\* the Enrich stage is over and its locals are alive
AfterEnrich == pc \in {"summary", "returned"}

RanksContiguous(seq) ==
    \A i \in 1..Len(seq) : Has(seq[i], "rank") /\ seq[i].rank = i

SortedByScore(seq) ==
    \A i, j \in 1..Len(seq) :
        (Has(seq[i], "rank") /\ Has(seq[j], "rank") /\ seq[i].rank < seq[j].rank)
            => /\ Has(seq[i], "relevance_score")
               /\ Has(seq[j], "relevance_score")
               /\ seq[i].relevance_score >= seq[j].relevance_score

\* C1 as stated: whatever list score_content_relevance is given, the list
\* it returns carries the ranks 1..len in sequence order, and a smaller
\* rank never has a smaller relevance_score.
C1_AsStated == AfterRank => RanksContiguous(scored) /\ SortedByScore(scored)

\* C1 amended: when the scoring pass is not aborted by an exception, the
\* returned list carries the ranks 1..len in sequence order and a smaller
\* rank never has a smaller relevance_score; an aborted pass returns the
\* input list with no rank on any item.
C1_RankedUnlessAborted ==
    AfterRank =>
        /\ ~rank_raised => RanksContiguous(scored) /\ SortedByScore(scored)
        /\ rank_raised => /\ Len(scored) = Len(articles_in)
                          /\ \A i \in 1..Len(scored) : ~Has(scored[i], "rank")

\* two items with different scores, returned in the order opposite to the
\* input order
C1_Witness ==
    /\ AfterRank /\ has_key /\ ~rank_raised
    /\ Len(scored) = 2
    /\ scored[1].relevance_score > scored[2].relevance_score
    /\ articles_in[1].source # articles_in[2].source
    /\ scored[1].source = articles_in[2].source

\* C2: with no scoring service every item gets relevance_score 0.5 and its
\* 1-based input position as rank, in input order; and a whole pipeline run
\* with the default limit returns the source items in input order, each with
\* relevance_score 0.5.
C2_DegradedKeepsOrder ==
    /\ (AfterRank /\ ~has_key) =>
          /\ Len(scored) = Len(articles_in)
          /\ \A i \in 1..Len(scored) :
                /\ Retains(scored[i], articles_in[i])
                /\ scored[i].relevance_score = FallbackScore
                /\ scored[i].rank = i
    /\ (pc = "returned" /\ ~has_key /\ top_n = DefaultTopN) =>
          /\ Len(results.content_ideas) = Len(articles_in)
          /\ \A i \in 1..Len(articles_in) :
                /\ Retains(results.content_ideas[i], articles_in[i])
                /\ results.content_ideas[i].relevance_score = FallbackScore

\* the two items of the ranker's own test, through the whole pipeline
C2_Witness ==
    /\ pc = "returned" /\ ~has_key /\ top_n = DefaultTopN
    /\ Len(results.content_ideas) = 2
    /\ results.content_ideas[1].title = PaperML.title
    /\ results.content_ideas[2].title = PaperPasta.title
    /\ results.content_ideas[2].relevance_score = FallbackScore

\* C3 as stated: a scoring pass aborted by an exception returns the input
\* list unchanged: no item carries a relevance_score or rank the pass wrote.
C3_AbortedPassLeavesNoScore ==
    (AfterRank /\ rank_raised) => scored = articles_in

\* C4 as stated: get_top_content(items, n) returns min(n, len(items)) items
\* (none when that is negative), the first ones of what
\* score_content_relevance returned.
C4_AsStated ==
    AfterRank =>
        /\ Len(ranked_content) = Max(Min(top_n, Len(articles_in)), 0)
        /\ ranked_content = SubSeq(scored, 1, Len(ranked_content))

\* C4 amended: for n >= 0 get_top_content(items, n) returns min(n, len)
\* items, for n < 0 it returns max(len + n, 0) items; in both cases they are
\* the first items, in order, of what score_content_relevance returned.
C4_TopIsPrefix ==
    AfterRank =>
        /\ Len(scored) = Len(articles_in)
        /\ top_n >= 0 => Len(ranked_content) = Min(top_n, Len(articles_in))
        /\ top_n < 0 =>
              Len(ranked_content) = Max(Len(articles_in) + top_n, 0)
        /\ \A i \in 1..Len(ranked_content) : ranked_content[i] = scored[i]

\* the limit cuts a ranked list of two down to its first item
C4_Witness ==
    /\ AfterRank /\ top_n = 1
    /\ Len(scored) = 2 /\ Len(ranked_content) = 1
    /\ ranked_content[1] = scored[1]

\* C5 as stated: create_content_ideas returns a list as long as its input,
\* in the same order, each item with every input field unchanged and with
\* both post_idea and article_idea.
C5_AsStated ==
    AfterEnrich =>
        /\ Len(final_ideas) = Len(ranked_content)
        /\ \A i \in 1..Len(final_ideas) :
              /\ Retains(final_ideas[i], ranked_content[i])
              /\ Has(final_ideas[i], "post_idea")
              /\ Has(final_ideas[i], "article_idea")

\* C5 amended: create_content_ideas returns a list as long as its input, in
\* the same order, each item with every input field unchanged; with a
\* configured client each item also has post_idea and article_idea, without
\* one the input list is returned as it is, with neither field.
C5_EnrichKeepsItems ==
    AfterEnrich =>
        /\ Len(final_ideas) = Len(ranked_content)
        /\ \A i \in 1..Len(final_ideas) :
              /\ Retains(final_ideas[i], ranked_content[i])
              /\ has_key => /\ Has(final_ideas[i], "post_idea")
                            /\ Has(final_ideas[i], "article_idea")
              /\ ~has_key => final_ideas[i] = ranked_content[i]

\* two items enriched by a configured client
C5_Witness ==
    /\ AfterEnrich /\ has_key
    /\ Len(final_ideas) = 2
    /\ Has(final_ideas[2], "post_idea")
    /\ final_ideas[2].title = ranked_content[2].title

\* C6: in one batch an item whose request fails gets the two fixed error
\* strings, the items after it are still processed, and every item whose
\* request succeeds gets the ideas parsed from its own answer, whatever
\* happened to the other requests.
C6_FailureIsLocal ==
    (AfterEnrich /\ has_key) =>
        /\ Len(final_ideas) = Len(lm_outcomes)
        /\ \A i \in 1..Len(final_ideas) :
              IF lm_outcomes[i].ok
              THEN /\ final_ideas[i].post_idea =
                          ParseIdeas(lm_outcomes[i].content).post
                   /\ final_ideas[i].article_idea =
                          ParseIdeas(lm_outcomes[i].content).article
              ELSE /\ final_ideas[i].post_idea = ErrorPostIdea
                   /\ final_ideas[i].article_idea = ErrorArticleIdea

\* the first request fails, the second succeeds
C6_Witness ==
    /\ AfterEnrich /\ has_key
    /\ Len(lm_outcomes) = 2
    /\ ~lm_outcomes[1].ok /\ lm_outcomes[2] = RespTwoLines
    /\ final_ideas[1].post_idea = ErrorPostIdea
    /\ final_ideas[2].post_idea = <<Tok("post", 4)>>
    /\ final_ideas[2].article_idea = <<Tok("article", 7)>>

IsPrefix(s, t) == Len(s) <= Len(t) /\ s = SubSeq(t, 1, Len(s))

C10_SnapshotIsLatestRun ==
    /\ pc \in {"collect", "structure", "rank", "enrich", "summary",
               "returned", "persist"} => snapshot = prev_snapshot
    /\ (runs > 0 /\ pc \in {"notify", "notified", "idle"}) =>
          /\ snapshot.exists
          /\ JsonLoad(snapshot.text).content_ideas = results.content_ideas
          /\ JsonLoad(snapshot.text).last_updated.iso > started
          /\ JsonLoad(snapshot.text).last_updated.iso <= clock

\* the second run produced one item where the first had produced two: the
\* snapshot holds the one
C10_Witness ==
    /\ pc = "idle" /\ runs = 2
    /\ prev_snapshot.exists
    /\ Len(prev_snapshot.text.content_ideas) = 2
    /\ Len(snapshot.text.content_ideas) = 1
    /\ JsonLoad(snapshot.text).content_ideas = results.content_ideas

Posts == SelectSeq(http_calls, LAMBDA c : c.endpoint = "sendMessage")
Gets == SelectSeq(http_calls, LAMBDA c : c.endpoint = "getUpdates")
IsItemLine(l) == l.kind = "item"
HasLine(text, P(_)) == \E i \in 1..Len(text) : P(text[i])
SummaryOfNothing ==
    bot_call.op = "send_daily_summary" /\ bot_call.articles = <<>>

\* C12 as stated: send_daily_summary called with an empty list sends
\* exactly one message, the fixed "no articles found" text.
C12_AsStated ==
    SummaryOfNothing =>
        /\ Len(Posts) = 1
        /\ Posts[1].text = NoArticlesText

\* C12: send_daily_summary called with an empty list hands exactly one
\* text to send_message, the fixed text with the "No articles found" line
\* and no numbered item line; with a token and a chat id configured that
\* text is posted exactly once, otherwise nothing is posted.
C12_EmptyListFixedText ==
    SummaryOfNothing =>
        /\ messages = <<NoArticlesText>>
        /\ HasLine(messages[1], LAMBDA l : l.s = "No articles found today.")
        /\ ~HasLine(messages[1], IsItemLine)
        /\ \A i \in 1..Len(Posts) : Posts[i].text = NoArticlesText
        /\ Len(Posts) =
              IF bot_token # NoToken /\ bot_call.chat_id # NoChatId
              THEN 1 ELSE 0

\* the fixed text was posted by a configured bot
C12_Witness ==
    /\ SummaryOfNothing
    /\ bot_call.chat_id = 1
    /\ Len(Posts) = 1
    /\ Posts[1].text = NoArticlesText
    /\ Posts[1].outcome.kind = "ok"
    /\ bot_return = "None"

\* C13: a call of send_message or send_daily_summary never raises, makes
\* at most one outbound send request, and returns the failure indicator
\* (send_message: False) when the transport fails.
C13_NeverRaises ==
    bot_call.op \in {"send_message", "send_daily_summary"} =>
        /\ bot_return # "raised"
        /\ Len(Posts) <= 1
        /\ (bot_call.op = "send_message" /\ Len(Posts) = 1
            /\ Posts[1].outcome.kind # "ok") => bot_return = "False"

ChatUnknown == bot_call.op = "send_message" /\ bot_call.chat_id = NoChatId

\* C14 as stated: with no chat id configured, send_message makes one
\* attempt to discover it.
C14_AsStated == ChatUnknown => Len(Gets) = 1

\* C14: with a bot token but no chat id configured, send_message makes
\* exactly one getUpdates request and no sendMessage request; the chat id
\* it stores is the one of the last inbound update; when there is no
\* inbound update it returns False and the chat id stays unset.  Without a
\* bot token it returns False and makes no request at all.
C14_DiscoveryOnce ==
    ChatUnknown =>
        /\ Len(Posts) = 0
        /\ bot_token = NoToken =>
              http_calls = <<>> /\ bot_return = "False" /\ chat_id = NoChatId
        /\ bot_token # NoToken =>
              /\ Len(http_calls) = 1
              /\ Len(Gets) = 1
              /\ LET got == Gets[1].outcome
                 IN /\ (got.kind = "ok" /\ got.result = <<>>) =>
                          bot_return = "False" /\ chat_id = NoChatId
                    /\ (got.kind = "ok" /\ got.result # <<>>
                        /\ got.result[Len(got.result)].has_message) =>
                          /\ bot_return = "False"
                          /\ chat_id = got.result[Len(got.result)].chat
                    /\ got.kind = "status" =>
                          bot_return = "False" /\ chat_id = NoChatId

\* the bot asked once, was told of no inbound message, and reported failure
C14_Witness ==
    /\ ChatUnknown
    /\ bot_token # NoToken
    /\ Len(Gets) = 1
    /\ Gets[1].outcome = Response("ok", <<>>)
    /\ bot_return = "False"
    /\ chat_id = NoChatId

\* what the claims say of the collectors
Failed(outcome) == outcome.kind # "ok"
RECURSIVE Concat(_)
Concat(lists) ==
    IF lists = <<>> THEN <<>> ELSE Head(lists) \o Concat(Tail(lists))
InList(list, P(_)) == \E i \in 1..Len(list) : P(list[i])

\* C15: a gather call returns a list whatever its sources do: a source
\* that fails (arXiv, Semantic Scholar, one feed) contributes no item, and
\* the items of the other sources are all returned, in the order of the
\* sources.
C15_FailingSourceIsolated ==
    /\ gather_call.op = "gather_research_data" =>
          LET arxiv == gather_call.arxiv
              scholar == gather_call.scholar
          IN /\ Failed(arxiv) /\ Failed(scholar) => gathered = <<>>
             /\ Failed(arxiv) => gathered = CollectFromSemanticScholar(scholar)
             /\ Failed(scholar) => gathered = CollectFromArxiv(arxiv)
             /\ Len(gathered) = Len(CollectFromArxiv(arxiv)) +
                                Len(CollectFromSemanticScholar(scholar))
    /\ gather_call.op = "gather_rss_data" =>
          LET feeds == gather_call.feeds
          IN gathered =
                Concat([i \in 1..Len(feeds) |->
                           IF Failed(feeds[i]) THEN <<>>
                           ELSE FeedItems[i, feeds[i]]])

\* the rate-limited source was refused and the papers of arXiv came back
C15_Witness ==
    /\ gather_call.op = "gather_research_data"
    /\ gather_call.scholar.kind = "status 429"
    /\ gather_call.arxiv.kind = "ok"
    /\ Len(gathered) = 1
    /\ gathered[1].source = "arXiv"

\* the keyword test, as the claim words it
KeywordTest(title, summary) ==
    \E text \in {Lower(title \o <<" ">> \o summary)} :
       \E k \in 1..Len(ai_terms) : Contains(text, ai_terms[k])

\* the titles of the entries of an answer that are read (the first five, a
\* title present) and pass the keyword test
PassingTitles ==
    [o \in FeedOutcomes |->
        {o.entries[j].title :
            j \in {j \in 1..Min(Len(o.entries), EntryLimit) :
                      /\ "title" \in DOMAIN o.entries[j]
                      /\ KeywordTest(o.entries[j].title,
                                     EntryItem(o.entries[j],
                                               rss_sources[1]).summary)}}]

\* C16: every item gather_rss_data returns passes the keyword test on its
\* title, a space and its summary; the items of a source are exactly its
\* entries that pass, an entry that fails being left out.
C16_OnlyAiRelated ==
    gather_call.op = "gather_rss_data" =>
        /\ \A i \in 1..Len(gathered) :
              KeywordTest(gathered[i].title, gathered[i].summary)
        /\ \A s \in 1..Len(gather_call.feeds) :
              {gathered[i].title : i \in {i \in 1..Len(gathered) :
                    gathered[i].source = rss_sources[s].name}}
              = PassingTitles[gather_call.feeds[s]]

\* a feed of three entries: one passes, one fails the test
C16_Witness ==
    /\ gather_call.op = "gather_rss_data"
    /\ gather_call.max_sources = 1
    /\ gather_call.feeds[1] = Fetched("ok", FeedMixed)
    /\ Len(gathered) = 1
    /\ gathered[1].title = Text.ai_news

\* the entries of an answer that are read, have no title and pass the
\* keyword test once the placeholder stands for the title
UntitledPassing ==
    [o \in FeedOutcomes |->
        {j \in 1..Min(Len(o.entries), EntryLimit) :
            /\ "title" \notin DOMAIN o.entries[j]
            /\ KeywordTest(NoTitleFeed, EntrySummary(o.entries[j]))}]

\* C17: a source record without a title yields an item whose title is the
\* placeholder: a paper titled "No title", a feed item titled "No Title".
C17_TitlePlaceholder ==
    /\ gather_call.op = "gather_research_data" =>
          \A answer \in {gather_call.arxiv, gather_call.scholar} :
             (/\ answer.kind = "ok"
              /\ InList(answer.entries, LAMBDA r : DOMAIN r # {}
                                          /\ "title" \notin DOMAIN r)) =>
                InList(gathered, LAMBDA item : item.title = NoTitleResearch)
    /\ gather_call.op = "gather_rss_data" =>
          \A s \in 1..Len(gather_call.feeds) :
             UntitledPassing[gather_call.feeds[s]] # {} =>
                InList(gathered,
                       LAMBDA item : /\ item.source = rss_sources[s].name
                                     /\ item.title = NoTitleFeed)

\* C18: every relevance_score that score_content_relevance writes lies
\* between 0 and 1, whatever the two embeddings are.
C18_ScoreInUnitInterval ==
    pc = "enrich" =>
        \A i \in 1..Len(scored) :
           Has(scored[i], "relevance_score") =>
              /\ scored[i].relevance_score >= 0
              /\ scored[i].relevance_score <= ScoreScale

\* C19: two consecutive calls of collect_from_semantic_scholar of one
\* collector record times at least one second apart, and a call that
\* starts less than a second after the recorded time sleeps for the rest
\* of the second before it records its own.
C19_GapAtLeastOneSecond ==
    /\ scholar_calls >= 2 =>
          last_semantic_scholar_call - prev_semantic_scholar_call
             >= TicksPerSecond
    /\ scholar_calls >= 1 =>
          /\ last_semantic_scholar_call >= gather_call.started
          /\ last_semantic_scholar_call >=
                prev_semantic_scholar_call + TicksPerSecond
          /\ now >= last_semantic_scholar_call

\* a second call started half a second after the first and recorded its
\* time a second after it
C19_Witness ==
    /\ scholar_calls = 2
    /\ gather_call.started - prev_semantic_scholar_call = 1
    /\ last_semantic_scholar_call - prev_semantic_scholar_call = TicksPerSecond

\* the latest call of load_feed_data has returned
FeedReturned == web_pc = "idle" /\ feed_call # NoLoad

\* ... and nothing has run since the fallback run it made
FallbackReturned ==
    /\ FeedReturned
    /\ feed_call.branch = "fallback"
    /\ entry = "web"
    /\ pc = "idle"

\* the run of a fallback went through every stage of run_complete_pipeline
\* and its content_ideas are what the call returned
FullRunReturned ==
    /\ stages = <<"collect", "structure", "rank", "enrich">>
    /\ "content_ideas" \in DOMAIN results
    /\ loaded = results.content_ideas

\* the file holds a complete feed
Complete(file) ==
    /\ file.exists
    /\ "truncated" \notin DOMAIN file.text
    /\ "content_ideas" \in DOMAIN file.text

\* C20 as the specification states it: load_feed_data returns the snapshot's
\* content_ideas whenever the snapshot file exists, and runs the pipeline
\* only when it does not.
C20_AsStated ==
    FeedReturned =>
       IF feed_call.found.exists
       THEN /\ feed_call.branch = "cached"
            /\ loaded = JsonLoad(feed_call.found.text).content_ideas
       ELSE /\ feed_call.branch = "fallback"
            /\ (FallbackReturned => FullRunReturned)

\* C20: load_feed_data returns the snapshot's content_ideas when the snapshot
\* exists and holds a complete feed; when there is no snapshot, or the file
\* cannot be read as a feed, it runs the full pipeline synchronously and
\* returns that run's content_ideas.
C20_CachedOrFallback ==
    FeedReturned =>
       IF Complete(feed_call.found)
       THEN /\ feed_call.branch = "cached"
            /\ loaded = JsonLoad(feed_call.found.text).content_ideas
       ELSE /\ feed_call.branch = "fallback"
            /\ (FallbackReturned => FullRunReturned)

\* a request found the file open for writing, ran the pipeline and returned
\* that run's items
C20_Witness ==
    /\ FallbackReturned
    /\ feed_call.found.exists
    /\ loaded # <<>>

\* C21: the Collect and Structure stages merge the sources by plain
\* concatenation: there are as many structured items as research items plus
\* feed items, the research items come first, each source keeps its order,
\* and an item that two sources offer is there twice.
C21_MergedByConcatenation ==
    pc = "rank" =>
        LET r == Len(raw_data.research)
        IN /\ Len(structured_data) = r + Len(raw_data.rss)
           /\ \A i \in 1..r :
                 /\ structured_data[i].original_data = raw_data.research[i]
                 /\ structured_data[i].source_type = "research"
           /\ \A i \in 1..Len(raw_data.rss) :
                 /\ structured_data[r + i].original_data = raw_data.rss[i]
                 /\ structured_data[r + i].source_type = "rss"

\* the same paper came from the research collector and from a feed: two
\* entries with one title and one url
C21_Witness ==
    /\ pc = "rank"
    /\ raw_data.research = <<PaperML>> /\ raw_data.rss = <<PostML>>
    /\ Len(structured_data) = 2
    /\ structured_data[1].title = structured_data[2].title
    /\ structured_data[1].url = structured_data[2].url
    /\ structured_data[1].source_type # structured_data[2].source_type

\* C22: in the list score_content_relevance returns, two items with equal
\* relevance_score keep the relative order they had in the input, and the
\* rank of an item is its position in the list sorted by descending score;
\* a pass that was aborted returns the input order and writes no rank.
C22_StableSortThenRank ==
    pc = "enrich" =>
        IF rank_raised
        THEN \A i \in 1..Len(scored) :
                Retains(scored[i], articles_in[i]) /\ ~Has(scored[i], "rank")
        ELSE /\ \A i \in 1..Len(structured_data) :
                   /\ Retains(structured_data[i], articles_in[i])
                   /\ structured_data[i].rank \in 1..Len(scored)
                   /\ scored[structured_data[i].rank] = structured_data[i]
             /\ \A i, j \in 1..Len(structured_data) :
                   (/\ i < j
                    /\ structured_data[i].relevance_score =
                          structured_data[j].relevance_score)
                      => structured_data[i].rank < structured_data[j].rank
             /\ \A i, j \in 1..Len(structured_data) :
                   structured_data[i].relevance_score >
                      structured_data[j].relevance_score
                      => structured_data[i].rank < structured_data[j].rank

\* two different items scored alike by the service, returned in input order
C22_Witness ==
    /\ pc = "enrich" /\ has_key /\ ~rank_raised
    /\ Len(scored) = 2
    /\ articles_in[1].source # articles_in[2].source
    /\ scored[1].relevance_score = scored[2].relevance_score
    /\ scored[1].relevance_score > ZeroScore
    /\ scored[1].source = articles_in[1].source
    /\ scored[2].rank = 2

\* the answer of the one chat request, stripped, and what was made of it
Content == Strip(lm_outcomes[1].content)
PostIdea == final_ideas[1].post_idea
ArticleIdea == final_ideas[1].article_idea
Answered == pc = "summary" /\ lm_outcomes[1].ok

\* what is left of the last line that starts with the marker, <<>> when no
\* line does
LastLineWith(marker) ==
    LET lines == Split(Content, NL)
        S == {i \in 1..Len(lines) : StartsWith(lines[i], marker)}
    IN IF S = {} THEN <<>> ELSE Strip(Remove(lines[Last(S)], marker))

BothLines == LastLineWith(MarkPost) # <<>> /\ LastLineWith(MarkArticle) # <<>>

\* the pieces of the answer around the article marker
Parts == Split(Content, MarkArticle)
PostPart == Strip(Remove(Parts[1], MarkPost))
ArticlePart == Strip(Parts[2])

\* text[:150] begins `idea`
CutAt150(idea) ==
    LET cut == Take(Content, TruncateAt)
    IN Len(idea) >= Len(cut) /\ SubSeq(idea, 1, Len(cut)) = cut

\* C23 as stated: when a line starts with "POST IDEA:" and one with
\* "ARTICLE IDEA:" and both remainders are non-empty, the remainders are the
\* ideas; otherwise, when the answer splits on "ARTICLE IDEA:" into exactly
\* two parts, the parts are the ideas; otherwise the post idea is the answer
\* cut to 150 characters and the article idea is the generic placeholder.
C23_AsStated ==
    Answered =>
        IF BothLines
        THEN /\ PostIdea = LastLineWith(MarkPost)
             /\ ArticleIdea = LastLineWith(MarkArticle)
        ELSE IF Len(Parts) = 2
        THEN /\ PostIdea = PostPart
             /\ ArticleIdea = ArticlePart
        ELSE /\ ArticleIdea = RelatedArticle
             /\ IF CharLen(Content) > TruncateAt THEN CutAt150(PostIdea)
                ELSE PostIdea = Content

\* C23 amended: as stated, except that in the second step the post part is
\* taken without its "POST IDEA:" marker and a part that is empty is
\* replaced by its own placeholder ("Generated post idea", "Generated
\* article idea"), and that in the third step "..." follows the 150
\* characters of an answer that was cut.
C23_ThreeSteps ==
    Answered =>
        IF BothLines
        THEN /\ PostIdea = LastLineWith(MarkPost)
             /\ ArticleIdea = LastLineWith(MarkArticle)
        ELSE IF Len(Parts) = 2
        THEN /\ PostIdea = IF PostPart # <<>> THEN PostPart
                           ELSE GeneratedPostIdea
             /\ ArticleIdea = IF ArticlePart # <<>> THEN ArticlePart
                              ELSE GeneratedArticleIdea
        ELSE /\ ArticleIdea = RelatedArticle
             /\ PostIdea = IF CharLen(Content) > TruncateAt
                           THEN Append(Take(Content, TruncateAt), Ellipsis)
                           ELSE Content

\* an answer with the article marker and nothing before it: the second step
\* puts the placeholder where the post part is empty
C23_Witness ==
    /\ Answered
    /\ lm_outcomes[1].content = <<MarkArticle, Tok("article", 7)>>
    /\ PostIdea = GeneratedPostIdea
    /\ ArticleIdea = <<Tok("article", 7)>>

\* the run in progress returned the failed result and has notified
FailedRunNotified ==
    pc = "notified" /\ Has(results, "status") /\ results.status = "failed"

\* the run's snapshot holds no item, and the text handed to send_message is
\* the fixed one
ErasedAndAnnounced ==
    /\ ~Has(results, "content_ideas")
    /\ snapshot.exists
    /\ JsonLoad(snapshot.text).content_ideas = <<>>
    /\ JsonLoad(snapshot.text).last_updated.iso > started
    /\ articles = <<>>
    /\ messages = <<NoArticlesText>>

NoArticlesPosted ==
    \E i \in 1..Len(http_calls) :
       /\ http_calls[i].endpoint = "sendMessage"
       /\ http_calls[i].text = NoArticlesText

\* C24 as stated: after a run that returned the failed result the snapshot
\* has been overwritten with an empty content_ideas, whatever it held, and
\* the "no articles found" message has been sent.
C24_AsStated ==
    FailedRunNotified => ErasedAndAnnounced /\ NoArticlesPosted

\* C24 amended: after a run that returned the failed result the snapshot
\* has been overwritten with an empty content_ideas, whatever it held, and
\* send_daily_summary has been called with the empty list; the "no articles
\* found" text is posted when the bot has a token and a chat id, and no
\* message is posted when it lacks either.
C24_FailedRunErases ==
    FailedRunNotified =>
        /\ ErasedAndAnnounced
        /\ bot_call.op = "send_daily_summary" /\ bot_call.articles = <<>>
        /\ NoArticlesPosted <=> (bot_token # NoToken /\ chat_id # NoChatId)
        /\ Len(http_calls) <= 1

\* the snapshot of the run before held an item; the failed run left none and
\* the configured bot posted the fixed text
C24_Witness ==
    /\ FailedRunNotified
    /\ runs = 2
    /\ prev_snapshot.exists
    /\ JsonLoad(prev_snapshot.text).content_ideas # <<>>
    /\ JsonLoad(snapshot.text).content_ideas = <<>>
    /\ NoArticlesPosted

\* the getUpdates request answered with updates of which the last carries a
\* message
Discovered(call) ==
    /\ call.endpoint = "getUpdates"
    /\ call.outcome.kind = "ok"
    /\ call.outcome.result # <<>>
    /\ call.outcome.result[Len(call.outcome.result)].has_message

\* C25: on a bot with a token, a send_message call that finds no chat id
\* makes the discovery request and posts nothing; when the discovery
\* succeeds the call stores the discovered id and returns False; a
\* send_message call that finds a chat id on the bot keeps it and makes one
\* sendMessage request to it, with no discovery request.
C25_DiscoveredIdIsKept ==
    [][(bot_call'.op = "send_message" /\ bot_token # NoToken) =>
          IF chat_id = NoChatId
          THEN /\ Len(http_calls') = 1
               /\ http_calls'[1].endpoint = "getUpdates"
               /\ bot_return' # "True"
               /\ Discovered(http_calls'[1]) =>
                     /\ bot_return' = "False"
                     /\ chat_id' # NoChatId
                     /\ chat_id' =
                           http_calls'[1].outcome.result[
                              Len(http_calls'[1].outcome.result)].chat
          ELSE /\ chat_id' = chat_id
               /\ Len(http_calls') = 1
               /\ http_calls'[1].endpoint = "sendMessage"
               /\ http_calls'[1].chat_id = chat_id
               /\ http_calls'[1].text = bot_call'.text
               /\ bot_return' = "True" <=> http_calls'[1].outcome.kind = "ok"
       ]_vars

\* a send_message call that found no chat id has stored the id of the last
\* update and returned False with nothing posted
C25_Witness ==
    /\ bot_call.op = "send_message"
    /\ bot_token # NoToken
    /\ bot_call.chat_id = NoChatId
    /\ Len(http_calls) = 1 /\ Discovered(http_calls[1])
    /\ chat_id = 2
    /\ bot_return = "False"

\* the file is being written: the document in it is not finished
PartlyWritten(file) == file.exists /\ Has(file.text, "truncated")

\* a step of the web application: of load_feed_data or of its fallback run
WebStep ==
    \/ web_pc' # web_pc \/ feed_call' # feed_call \/ loaded' # loaded
    \/ entry = "web" /\ entry' = "web"

\* C26: a call of load_feed_data made while a scheduled run rewrites the
\* snapshot never returns the items of a partly written file: it takes the
\* cached branch only on a completely written snapshot, whose content_ideas
\* it returns, and otherwise returns the content_ideas of its own fallback
\* run; and no step of the web application changes the snapshot file.
C26_NoPartialSnapshot ==
    /\ [](FeedReturned =>
             /\ PartlyWritten(feed_call.found) => feed_call.branch = "fallback"
             /\ feed_call.branch = "cached" =>
                   /\ Complete(feed_call.found)
                   /\ loaded = JsonLoad(feed_call.found.text).content_ideas
             /\ FallbackReturned => FullRunReturned)
    /\ [][WebStep => snapshot' = snapshot]_vars

\* a call found the file with one item of the new feed in it and the
\* document unfinished, and returned the item of its own run
C26_Witness ==
    /\ FallbackReturned /\ FullRunReturned
    /\ PartlyWritten(feed_call.found)
    /\ Has(feed_call.found.text, "content_ideas")
    /\ Len(feed_call.found.text.content_ideas) = 1
    /\ Len(loaded) = 1
    /\ Complete(snapshot)

\* run_complete_pipeline has returned a result that is not the failed one
Succeeded == pc = "returned" /\ ~Has(results, "status")

\* C27: in every result of run_complete_pipeline(top_n) that is not the
\* failed one, with top_n >= 0, top_ranked is at most min(top_n,
\* total_collected), ideas_generated equals top_ranked, and content_ideas[i]
\* has the title and the url of ranked_articles[i] for every i.
C27_ResultCounts ==
    (Succeeded /\ top_n >= 0) =>
        /\ results.top_ranked <= Min(top_n, results.total_collected)
        /\ results.top_ranked = Len(results.ranked_articles)
        /\ results.ideas_generated = results.top_ranked
        /\ results.ideas_generated = Len(results.content_ideas)
        /\ \A i \in 1..Len(results.content_ideas) :
              /\ results.content_ideas[i].title =
                    results.ranked_articles[i].title
              /\ results.content_ideas[i].url = results.ranked_articles[i].url

\* two items collected and reordered by the ranker, top_n = 1: one ranked
\* article, one idea, for the item the ranker put first
C27_Witness ==
    /\ Succeeded /\ has_key /\ top_n = 1
    /\ results.total_collected = 2
    /\ results.top_ranked = 1
    /\ results.ideas_generated = 1
    /\ articles_in[1].url # articles_in[2].url
    /\ results.content_ideas[1].url = articles_in[2].url

\* a scoring pass with a client is over and its requests are on the log
Scored == pc = "enrich" /\ has_key

\* no answer of the service had another dimension than the reference's
SameDimensions ==
    \A i \in 1..Len(embeddings.items) :
       ~CosineRaises(embeddings.ref, embeddings.items[i])

\* the request for the reference text, or the one for article i, failed
RequestFailedFor(i) ==
    embeddings.ref = NoEmbedding \/ embeddings.items[i] = NoEmbedding

\* C28: with a configured client a failed embedding request does not abort
\* the scoring pass: the article whose request failed gets relevance_score
\* 0.0, every article gets 0.0 when the request for the reference text
\* failed, every other article has the score computed from its embedding,
\* and the ranks 1..len are assigned.
C28_FailedEmbeddingScoresZero ==
    (Scored /\ SameDimensions) =>
        /\ ~rank_raised
        /\ Len(scored) = Len(articles_in)
        /\ RanksContiguous(scored)
        /\ \A i \in 1..Len(structured_data) :
              structured_data[i].relevance_score =
                 IF RequestFailedFor(i) THEN ZeroScore
                 ELSE CosineSimilarity(embeddings.ref, embeddings.items[i])

\* the request for the first article failed: it is ranked second with 0.0,
\* behind the second article with its computed score
C28_Witness ==
    /\ Scored /\ ~rank_raised
    /\ embeddings = Embedded(VecRef, <<NoEmbedding, VecNear>>)
    /\ structured_data[1].relevance_score = ZeroScore
    /\ structured_data[1].rank = 2
    /\ structured_data[2].relevance_score > ZeroScore
    /\ structured_data[2].rank = 1
    /\ scored[1].source = articles_in[2].source
    /\ articles_in[1].source # articles_in[2].source

NoIdeaField(item) == ~Has(item, "post_idea") /\ ~Has(item, "article_idea")
BothIdeaFields(item) == Has(item, "post_idea") /\ Has(item, "article_idea")

\* C29: with a configured client create_content_ideas leaves the
\* dictionaries of its input list as they were: after the call the list is
\* still what the ranker handed over and none of its items has post_idea or
\* article_idea, while every returned item has both; so in the result of the
\* run the items of ranked_articles have no idea field and those of
\* content_ideas have both.
C29_InputLeftUnchanged ==
    /\ (AfterEnrich /\ has_key) =>
          /\ ranked_content = Slice(scored, top_n)
          /\ Len(final_ideas) = Len(ranked_content)
          /\ \A i \in 1..Len(ranked_content) :
                /\ NoIdeaField(ranked_content[i])
                /\ BothIdeaFields(final_ideas[i])
    /\ (Succeeded /\ has_key) =>
          /\ results.ranked_articles = Slice(scored, top_n)
          /\ \A i \in 1..Len(results.ranked_articles) :
                NoIdeaField(results.ranked_articles[i])
          /\ \A i \in 1..Len(results.content_ideas) :
                BothIdeaFields(results.content_ideas[i])

\* a result with two items: ideas on both items of content_ideas, none on
\* those of ranked_articles
C29_Witness ==
    /\ Succeeded /\ has_key
    /\ Len(results.ranked_articles) = 2
    /\ Len(results.content_ideas) = 2
    /\ results.content_ideas[2].post_idea = <<Tok("post", 4)>>
    /\ NoIdeaField(results.ranked_articles[2])
    /\ results.content_ideas[2].title = results.ranked_articles[2].title

\* the run in progress has failed: run_complete_pipeline has returned the
\* failed result, or the bot has raised in send_daily_summary
RunFailed ==
    \/ /\ pc \in {"returned", "persist", "notify", "notified"}
       /\ Has(results, "status")
       /\ results.status = "failed"
    \/ pc = "notified" /\ bot_return = "raised"

\* C30: the scheduler's loop makes its runs one after another: a run starts
\* only inside the job the loop has called, with no run in progress, a run
\* is in progress only while the loop is inside the job, and the snapshot is
\* written only by the persist step of that one run; no exception of a run
\* stops the loop, and after a failed run (one that is not the last the
\* bound on runs allows) the loop calls the job again and the next run starts.
C30_RunsInSequenceAndLoopGoesOn ==
    /\ [](loop # "stopped")
    /\ [](pc # "idle" => loop = "job")
    /\ [][runs' # runs => pc = "idle" /\ loop = "job" /\ pc' = "collect"]_vars
    /\ [][snapshot' # snapshot => pc = "persist" /\ loop = "job"]_vars
    /\ (RunFailed /\ runs < MaxRuns) ~> (pc = "collect" /\ loop = "job")

\* the second run has started after a first one in which the bot raised
C30_Witness ==
    /\ runs = 2
    /\ pc = "collect"
    /\ loop = "job"
    /\ bot_return = "raised"
    /\ minutes = Every

====
